---------------------------- MODULE Spec2Model ----------------------------
(***************************************************************************)
(* Model of the chat session of packages/core/src/core/geminiChat.ts       *)
(* (GeminiChat) and of the telemetry events it emits.                      *)
(*                                                                         *)
(* A Content is a record [role, parts]; a Part is a record [k, th, t]:     *)
(*   k  - which payload field the part has: "text", "fc" (functionCall),   *)
(*        "fr" (functionResponse) or "none" (no payload field);            *)
(*   th - part.thought === true;                                           *)
(*   t  - the text, a sequence of characters (<<>> is '').                 *)
(* Each async function is cut into steps at its awaits; the code between   *)
(* two awaits is one atomic action.                                        *)
(***************************************************************************)
EXTENDS Integers, Sequences, FiniteSets, TLC

\* ------------------------------------------------------------- bounds
MaxCalls == 2
MaxChunks == 1
MaxAttempts == 2
MaxHist == 4
MaxLogCalls == 5
MaxLogIds == 3
MaxSeqChunks == 2
MaxEvents == 3
MaxDays == 2
MaxEdits == 2

\* ---------------------------------------------------- program constants
DedupCap == 100
DedupEvict == 50
maxFileSize == 10 * 1024 * 1024

VARIABLES
  history,          \* this.history: the comprehensive history
  sendPromise,      \* this.sendPromise: id of a promise (0: Promise.resolve())
  pstate,           \* state of the promise created by each call
  loggedResponses,  \* this.loggedResponses, in insertion order
  nextId,           \* source of fresh request ids (crypto.randomUUID)
  model,            \* config.getModel(): the session's active model
  events,           \* telemetry events emitted so far, in order
  pc,               \* position of each call
  kind,             \* "send" (sendMessage) or "stream" (sendMessageStream)
  waitOn,           \* the promise each call awaits at its first line
  reqContents,      \* requestContents of each call
  reqId,            \* requestId of each call (0: none yet)
  attempts,         \* transport attempts made by the retry loop
  resp,             \* the response sendMessage received
  chunks,           \* processStreamResponse: chunks
  outputContent,    \* processStreamResponse: outputContent
  nPulled,          \* chunks the transport delivered to the stream so far
  recorded,         \* history variable: calls whose recordHistory ran
  usageSeen,        \* history variable: response/some chunk carried usage
  duringStream,     \* history variable: streams unconsumed when the call was made
  delivered,        \* history variable: what the transport returned to each call
  yielded,          \* the chunks each stream has yielded to its consumer
  appended,         \* history variable: the turns each call's recordHistory appended
  lastError,        \* the error after which the retry loop waits to try again
  attemptModel,     \* modelToUse of each call's latest transport invocation
  attemptReq,       \* request id and contents of that invocation
  accepted,         \* history variable: the fallback handler has accepted
  curIn,            \* input of extractCuratedHistory (function check)
  curOut,           \* its output
  curAgain,         \* its output when applied to curOut
  phase,            \* "in" | "out" for the function checks
  fbOut,            \* handleFlashFallback on its own: its last call
  logCalls,         \* direct _logApiResponse calls made (function check)
  fsFiles,          \* the files of the logs directory, by path
  currentRollNumber,   \* UserBehaviorLogger.currentRollNumber
  currentLogFilePath,  \* UserBehaviorLogger.currentLogFilePath
  studentIdHash,    \* UserBehaviorLogger.studentIdHash
  machineIdHash,    \* UserBehaviorLogger.machineIdHash
  telemetryEnabled, \* config.getTelemetryEnabled()
  sessionId,        \* config.getSessionId(), of the logger's config
  lastGet,          \* history variable: the latest getInstance call
  env,              \* process.env and os: what the hashes are computed from
  today,            \* the date new Date() gives
  nLog,             \* logEvent calls made
  lastLog,          \* history variable: the latest logEvent call
  toolsIn,          \* _extractToolsCalled on its own: two contents arrays
  toolsOut,         \* its results for the two
  nEdits            \* addHistory, clearHistory, setHistory calls made

vars == <<history, sendPromise, pstate, loggedResponses, nextId, model,
          events, pc,
          kind, waitOn, reqContents, reqId, attempts, resp, chunks,
          outputContent, nPulled, recorded, usageSeen, duringStream,
          delivered, yielded, appended, lastError, attemptModel, accepted,
          attemptReq,
          curIn, curOut, curAgain, phase, logCalls, fbOut,
          fsFiles, currentRollNumber, currentLogFilePath, studentIdHash,
          machineIdHash, telemetryEnabled, env, today, nLog, lastLog,
          sessionId, lastGet,
          toolsIn, toolsOut, nEdits>>

toolVars == <<toolsIn, toolsOut>>

editVars == <<nEdits>>

logVars == <<fsFiles, currentRollNumber, currentLogFilePath, studentIdHash,
             machineIdHash, telemetryEnabled, env, today, nLog, lastLog,
             sessionId, lastGet>>

Calls == 1..MaxCalls

\* ------------------------------------------------------------ contents
TextPart(t) == [k |-> "text", th |-> FALSE, t |-> t]
ThoughtPart == [k |-> "text", th |-> TRUE, t |-> <<0>>]
FcPart == [k |-> "fc", th |-> FALSE, t |-> <<>>]
FrPart == [k |-> "fr", th |-> FALSE, t |-> <<>>]
EmptyObjPart == [k |-> "none", th |-> FALSE, t |-> <<>>]

Content(r, ps) == [role |-> r, parts |-> ps]
NoContent == Content("undefined", <<>>)

isValidContent(content) ==
  /\ Len(content.parts) > 0
  /\ \A i \in 1..Len(content.parts) :
       LET part == content.parts[i] IN
         /\ ~(part.k = "none" /\ ~part.th)
         /\ ~(~part.th /\ part.k = "text" /\ part.t = <<>>)

\* index of the first turn at or after i that is not a model turn
RECURSIVE RunEnd(_, _)
RunEnd(h, i) ==
  IF i <= Len(h) /\ h[i].role = "model" THEN RunEnd(h, i + 1) ELSE i

Pop(s) == IF Len(s) = 0 THEN s ELSE SubSeq(s, 1, Len(s) - 1)

RECURSIVE CurateFromNoPop(_, _, _)
CurateFromNoPop(h, i, curatedHistory) ==
  IF i > Len(h) THEN curatedHistory
  ELSE IF h[i].role = "user"
       THEN CurateFromNoPop(h, i + 1, Append(curatedHistory, h[i]))
       ELSE LET j == RunEnd(h, i)
                isValid == \A n \in i..(j - 1) : isValidContent(h[n])
            IN CurateFromNoPop(h, j,
                 IF isValid THEN curatedHistory \o SubSeq(h, i, j - 1)
                 ELSE curatedHistory)

RECURSIVE CurateFromKeepInvalid(_, _, _)
CurateFromKeepInvalid(h, i, curatedHistory) ==
  IF i > Len(h) THEN curatedHistory
  ELSE IF h[i].role = "user"
       THEN CurateFromKeepInvalid(h, i + 1, Append(curatedHistory, h[i]))
       ELSE LET j == RunEnd(h, i)
            IN CurateFromKeepInvalid(h, j, curatedHistory \o SubSeq(h, i, j - 1))

RECURSIVE CurateFromPopKeep(_, _, _)
CurateFromPopKeep(h, i, curatedHistory) ==
  IF i > Len(h) THEN curatedHistory
  ELSE IF h[i].role = "user"
       THEN CurateFromPopKeep(h, i + 1, Append(curatedHistory, h[i]))
       ELSE LET j == RunEnd(h, i)
                isValid == \A n \in i..(j - 1) : isValidContent(h[n])
            IN CurateFromPopKeep(h, j,
                 (IF isValid THEN curatedHistory ELSE Pop(curatedHistory))
                   \o SubSeq(h, i, j - 1))

RECURSIVE CurateFrom(_, _, _)
CurateFrom(h, i, curatedHistory) ==
  IF i > Len(h) THEN curatedHistory
  ELSE IF h[i].role = "user"
       THEN CurateFrom(h, i + 1, Append(curatedHistory, h[i]))
       ELSE LET j == RunEnd(h, i)
                isValid == \A n \in i..(j - 1) : isValidContent(h[n])
            IN CurateFrom(h, j,
                 IF isValid THEN curatedHistory \o SubSeq(h, i, j - 1)
                 ELSE Pop(curatedHistory))

extractCuratedHistory(comprehensiveHistory) ==
  IF Len(comprehensiveHistory) = 0 THEN <<>>
  ELSE CurateFrom(comprehensiveHistory, 1, <<>>)


isValidResponse(response) ==
  IF response.content = NoContent THEN FALSE
  ELSE isValidContent(response.content)

isTextContent(content) ==
  /\ content # NoContent
  /\ content.role = "model"
  /\ Len(content.parts) > 0
  /\ content.parts[1].k = "text"
  /\ content.parts[1].t # <<>>

isThoughtContent(content) ==
  /\ content # NoContent
  /\ content.role = "model"
  /\ Len(content.parts) > 0
  /\ content.parts[1].th

\* utils/messageInspectors.ts: a user turn all of whose parts are tool results
isFunctionResponse(content) ==
  /\ content.role = "user"
  /\ Len(content.parts) > 0
  /\ \A i \in 1..Len(content.parts) : content.parts[i].k = "fr"

createUserContent(c) == Content("user", <<TextPart(<<c>>)>>)

MergeTextPrepend(lastContent, content) ==
  [lastContent EXCEPT !.parts =
     <<[lastContent.parts[1] EXCEPT !.t = content.parts[1].t \o @]>>
       \o Tail(lastContent.parts) \o Tail(content.parts)]

\* lastContent.parts[0].text += content.parts[0].text;
\* lastContent.parts.push(...content.parts.slice(1))
MergeText(lastContent, content) ==
  [lastContent EXCEPT !.parts =
     <<[lastContent.parts[1] EXCEPT !.t = @ \o content.parts[1].t]>>
       \o Tail(lastContent.parts) \o Tail(content.parts)]

RECURSIVE Consolidate(_, _, _)
Consolidate(outputContents, i, consolidated) ==
  IF i > Len(outputContents) THEN consolidated
  ELSE LET content == outputContents[i]
           n == Len(consolidated)
       IN IF isThoughtContent(content)
          THEN Consolidate(outputContents, i + 1, consolidated)
          ELSE IF n > 0 /\ isTextContent(consolidated[n]) /\ isTextContent(content)
               THEN Consolidate(outputContents, i + 1,
                      [consolidated EXCEPT ![n] = MergeText(@, content)])
               ELSE Consolidate(outputContents, i + 1,
                      Append(consolidated, content))

recordHistoryThoughtsKept(hist, userInput, modelOutput, automaticFunctionCallingHistory) ==
  LET nonThoughtModelOutput ==
        modelOutput
      outputContents ==
        IF /\ Len(nonThoughtModelOutput) > 0
           /\ \A i \in 1..Len(nonThoughtModelOutput) :
                nonThoughtModelOutput[i].role # "undefined"
        THEN nonThoughtModelOutput
        ELSE IF Len(nonThoughtModelOutput) = 0 /\ Len(modelOutput) > 0
             THEN <<>>
             ELSE IF ~isFunctionResponse(userInput)
                  THEN <<Content("model", <<>>)>>
                  ELSE <<>>
      viaAfc == Len(automaticFunctionCallingHistory) > 0
      pushed == IF viaAfc
                THEN hist \o extractCuratedHistory(automaticFunctionCallingHistory)
                ELSE Append(hist, userInput)
      consolidated == outputContents
      n == Len(pushed)
  IN IF Len(consolidated) = 0 THEN pushed
     ELSE IF /\ ~viaAfc
             /\ n > 0
             /\ isTextContent(pushed[n])
             /\ isTextContent(consolidated[1])
          THEN [pushed EXCEPT ![n] = MergeText(@, consolidated[1])]
                 \o Tail(consolidated)
          ELSE pushed \o consolidated

recordHistoryUserAndAfc(hist, userInput, modelOutput, automaticFunctionCallingHistory) ==
  LET nonThoughtModelOutput ==
        SelectSeq(modelOutput, LAMBDA content : ~isThoughtContent(content))
      outputContents ==
        IF /\ Len(nonThoughtModelOutput) > 0
           /\ \A i \in 1..Len(nonThoughtModelOutput) :
                nonThoughtModelOutput[i].role # "undefined"
        THEN nonThoughtModelOutput
        ELSE IF Len(nonThoughtModelOutput) = 0 /\ Len(modelOutput) > 0
             THEN <<>>
             ELSE IF ~isFunctionResponse(userInput)
                  THEN <<Content("model", <<>>)>>
                  ELSE <<>>
      viaAfc == Len(automaticFunctionCallingHistory) > 0
      pushed == IF viaAfc
                THEN Append(hist, userInput)
                       \o extractCuratedHistory(automaticFunctionCallingHistory)
                ELSE Append(hist, userInput)
      consolidated == Consolidate(outputContents, 1, <<>>)
      n == Len(pushed)
  IN IF Len(consolidated) = 0 THEN pushed
     ELSE IF /\ ~viaAfc
             /\ n > 0
             /\ isTextContent(pushed[n])
             /\ isTextContent(consolidated[1])
          THEN [pushed EXCEPT ![n] = MergeText(@, consolidated[1])]
                 \o Tail(consolidated)
          ELSE pushed \o consolidated

recordHistoryMergesEarlier(hist, userInput, modelOutput, automaticFunctionCallingHistory) ==
  LET nonThoughtModelOutput ==
        SelectSeq(modelOutput, LAMBDA content : ~isThoughtContent(content))
      outputContents ==
        IF /\ Len(nonThoughtModelOutput) > 0
           /\ \A i \in 1..Len(nonThoughtModelOutput) :
                nonThoughtModelOutput[i].role # "undefined"
        THEN nonThoughtModelOutput
        ELSE IF Len(nonThoughtModelOutput) = 0 /\ Len(modelOutput) > 0
             THEN <<>>
             ELSE IF ~isFunctionResponse(userInput)
                  THEN <<Content("model", <<>>)>>
                  ELSE <<>>
      viaAfc == Len(automaticFunctionCallingHistory) > 0
      pushed == IF viaAfc
                THEN hist \o extractCuratedHistory(automaticFunctionCallingHistory)
                ELSE Append(hist, userInput)
      consolidated == Consolidate(outputContents, 1, <<>>)
      n == Len(pushed)
  IN IF Len(consolidated) = 0 THEN pushed
     ELSE IF /\ ~viaAfc
             /\ n > 1
             /\ isTextContent(pushed[n - 1])
             /\ isTextContent(consolidated[1])
          THEN [pushed EXCEPT ![n - 1] = MergeText(@, consolidated[1])]
                 \o Tail(consolidated)
          ELSE pushed \o consolidated

\* the history after recordHistory(userInput, modelOutput, afc)
recordHistory(hist, userInput, modelOutput, automaticFunctionCallingHistory) ==
  LET nonThoughtModelOutput ==
        SelectSeq(modelOutput, LAMBDA content : ~isThoughtContent(content))
      outputContents ==
        IF /\ Len(nonThoughtModelOutput) > 0
           /\ \A i \in 1..Len(nonThoughtModelOutput) :
                nonThoughtModelOutput[i].role # "undefined"
        THEN nonThoughtModelOutput
        ELSE IF Len(nonThoughtModelOutput) = 0 /\ Len(modelOutput) > 0
             THEN <<>>
             ELSE IF ~isFunctionResponse(userInput)
                  THEN <<Content("model", <<>>)>>
                  ELSE <<>>
      viaAfc == Len(automaticFunctionCallingHistory) > 0
      pushed == IF viaAfc
                THEN hist \o extractCuratedHistory(automaticFunctionCallingHistory)
                ELSE Append(hist, userInput)
      consolidated == Consolidate(outputContents, 1, <<>>)
      n == Len(pushed)
  IN IF Len(consolidated) = 0 THEN pushed
     ELSE IF /\ ~viaAfc
             /\ n > 0
             /\ isTextContent(pushed[n])
             /\ isTextContent(consolidated[1])
          THEN [pushed EXCEPT ![n] = MergeText(@, consolidated[1])]
                 \o Tail(consolidated)
          ELSE pushed \o consolidated

\* chunks.slice().reverse().find(chunk => chunk.usageMetadata)?.usageMetadata
\* (0: undefined)
RECURSIVE getFinalUsageMetadata(_)
getFinalUsageMetadata(cs) ==
  IF Len(cs) = 0 THEN 0
  ELSE IF cs[Len(cs)].usage # 0 THEN cs[Len(cs)].usage
       ELSE getFinalUsageMetadata(Pop(cs))

\* ------------------------------------------------------------ telemetry
Event(type, rid, c, usage) ==
  [type |-> type, rid |-> rid, ex |-> c, usage |-> usage, rt |-> "none"]

\* JSON.stringify(value): a text that opens with "[" for an array of items
\* and with "{" for an object (items holds the one object)
JSONStringify(items, isArray) ==
  [open |-> IF isArray THEN "[" ELSE "{", body |-> items]

\* the responseText of a call that passes none
NoText == [open |-> "", body |-> <<>>]

\* JSON.parse(responseText), reached only when responseText is truthy
JSONParse(responseText) ==
  [isArray |-> (responseText.open = "["), items |-> responseText.body]

\* _detectResponseType(response) for the parsed response text: an array has
\* no `candidates` (and no `isChunk`) property
detectResponseType(response) ==
  IF response.isArray THEN "error"
  ELSE LET content == response.items[1].content
           parts == IF content = NoContent THEN <<>> ELSE content.parts
           hasToolCalls == \E i \in 1..Len(parts) : parts[i].k = "fc"
           hasText == \E i \in 1..Len(parts) :
                        parts[i].k = "text" /\ parts[i].t # <<>>
       IN IF hasToolCalls /\ hasText THEN "mixed"
          ELSE IF hasToolCalls THEN "tool_call"
          ELSE IF hasText THEN "text_response"
          ELSE "error"

ApiResponseEventNoId(rid, c, usage, responseType) ==
  [Event("api_response", 0, c, usage) EXCEPT !.rt = responseType]

ApiResponseEvent(rid, c, usage, responseType) ==
  [Event("api_response", rid, c, usage) EXCEPT !.rt = responseType]

\* crypto.randomUUID(): a value never returned before
MintConstantId(n) == 1

MintRequestId(n) == n

\* _logApiRequest: the event it emits (the id is minted by the caller below)
LogApiRequest(evs, c, requestId) ==
  Append(evs, Event("api_request", requestId, c, 0))

\* _logApiError: ApiErrorEvent carries the prompt id, no request id
LogApiErrorNothing(evs, c) == evs

LogApiError(evs, c) == Append(evs, Event("api_error", 0, c, 0))

\* the clean-up of loggedResponses in _logApiResponse
CleanUp(lr) ==
  IF Len(lr) > DedupCap THEN SubSeq(lr, DedupEvict + 1, Len(lr)) ELSE lr

LogApiResponseNoUsageGuard(c, requestId, usageMetadata, responseText) ==
  /\ loggedResponses' = CleanUp(loggedResponses)
  /\ events' = Append(events,
        ApiResponseEvent(requestId, c, usageMetadata,
          IF responseText = NoText THEN "error"
          ELSE detectResponseType(JSONParse(responseText))))

\* _logApiResponse: returns at once without usage metadata; the check of
\* loggedResponses and the insertion into it are commented out in the source
LogApiResponse(c, requestId, usageMetadata, responseText) ==
  IF usageMetadata = 0
  THEN UNCHANGED <<events, loggedResponses>>
  ELSE /\ loggedResponses' = CleanUp(loggedResponses)
       /\ events' = Append(events,
             ApiResponseEvent(requestId, c, usageMetadata,
               IF responseText = NoText THEN "error"
               ELSE detectResponseType(JSONParse(responseText))))

\* ------------------------------------------------------------- promises
PState(p) == IF p = 0 THEN "fulfilled" ELSE pstate[p]

\* ---------------------------------------------------- transport outputs
ModelText(c, n) == Content("model", <<TextPart(<<10 * c + n>>)>>)
ModelThought == Content("model", <<ThoughtPart>>)
ModelEmpty == Content("model", <<>>)
ModelEmptyText == Content("model", <<TextPart(<<>>)>>)

Response(content, usage) == [content |-> content, usage |-> usage, afc |-> <<>>]
NoResponse == Response(NoContent, 0)

\* what generateContent may return: text with or without usage metadata,
\* a thought only, or no candidate (with usage metadata)
SendResponses(c) ==
  { Response(ModelText(c, 0), 1), Response(ModelText(c, 0), 0),
    Response(ModelThought, 0), Response(NoContent, 1) }

\* what the chunk generator may deliver as its n-th chunk: a text chunk with
\* or without usage metadata, a thought chunk, or a closing chunk with an
\* empty text part that carries the usage metadata
StreamChunks(c, n) ==
  { Response(ModelText(c, n), 0), Response(ModelText(c, n), n),
    Response(ModelThought, 0), Response(ModelEmptyText, n) }

\* an error the transport throws: its HTTP status (0: none) and its message,
\* a sequence of characters: a digit is itself, any other character is -1
Error(status, message) == [status |-> status, message |-> message]
NoError == Error(0, <<>>)

ErrRateLimit == Error(429, <<4, 2, 9>>)
ErrServer == Error(503, <<5, 0, 3>>)
ErrServerPlain == Error(500, <<-1, -1>>)
ErrAuth == Error(401, <<4, 0, 1>>)
\* '400 ... 1500 ...': a bad request whose message quotes a number
ErrBadRequest == Error(400, <<4, 0, 0, -1, 1, 5, 0, 0>>)

Errors == {ErrRateLimit, ErrServer, ErrServerPlain, ErrAuth, ErrBadRequest}

\* error.message.includes('429')
Includes429(message) ==
  \E i \in 1..(Len(message) - 2) :
    message[i] = 4 /\ message[i + 1] = 2 /\ message[i + 2] = 9

\* error.message.match(/5\d{2}/)
Matches5xx(message) ==
  \E i \in 1..(Len(message) - 2) :
    message[i] = 5 /\ message[i + 1] \in 0..9 /\ message[i + 2] \in 0..9

\* shouldRetry: the message includes '429' or matches /5\d{2}/
shouldRetry(err) ==
  /\ err.message # <<>>
  /\ (Includes429(err.message) \/ Matches5xx(err.message))

\* ------------------------------------------------------------- fallback
FlashModel == "flash"

AuthTypes == {"google", "qwen", "other"}

\* what the config's flashFallbackHandler does: absent, accepts, declines
\* (returns false or null), declines after it has itself switched the
\* config's model to the fallback model, throws
Handlers == {"none", "accept", "decline", "declineSwitched", "throws"}

\* handleQwenOAuthError: errorCode === 401 || errorCode === 403 (the message
\* tests look for words; the messages modelled hold status digits only)
isAuthError(error) == error.status \in {401, 403}

\* handleQwenOAuthError: errorCode === 429 || errorMessage.includes('429')
isRateLimitError(error) == error.status = 429 \/ Includes429(error.message)

\* handleQwenOAuthError: warns; returns null on every path
handleQwenOAuthError(error) ==
  IF error = NoError THEN "null"
  ELSE IF isAuthError(error) THEN "null"
  ELSE IF isRateLimitError(error) THEN "null"
  ELSE "null"

\* handleFlashFallback: whether it calls the handler
HookConsulted(authType, handler) ==
  authType = "google" /\ model # FlashModel /\ handler # "none"

\* config.getModel() when the handler has returned or thrown
ModelAfterHook(authType, handler) ==
  IF HookConsulted(authType, handler) /\ handler = "declineSwitched"
  THEN FlashModel
  ELSE model

handleFlashFallbackNoFlashCheck(authType, handler, error) ==
  IF authType = "qwen" THEN handleQwenOAuthError(error)
  ELSE IF authType # "google" THEN "null"
  ELSE IF handler = "accept" THEN FlashModel
  ELSE "null"

\* handleFlashFallback: the model name it returns, or "null"
handleFlashFallback(authType, handler, error) ==
  IF authType = "qwen" THEN handleQwenOAuthError(error)
  ELSE IF authType # "google" THEN "null"
  ELSE IF model = FlashModel THEN "null"
  ELSE IF handler = "accept" THEN FlashModel
  ELSE "null"

ModelAfterFallbackNoSet(authType, handler) ==
  ModelAfterHook(authType, handler)

\* handleFlashFallback: config.getModel() when it returns
\* (config.setModel(fallbackModel) on acceptance, or done by the handler)
ModelAfterFallback(authType, handler) ==
  IF HookConsulted(authType, handler) /\ handler = "accept"
  THEN FlashModel
  ELSE ModelAfterHook(authType, handler)

\* --------------------------------------------------------------- calls
NoCall == [authType |-> "none"]

fnVars == <<curIn, curOut, curAgain, phase, logCalls, fbOut>>

cfgVars == <<model>>

obsVars == <<delivered, yielded, appended>>

errVars == <<lastError, attemptModel, accepted, attemptReq>>

\* the call has returned or thrown: its locals are gone
Return(c) ==
  /\ waitOn' = [waitOn EXCEPT ![c] = 0]
  /\ attempts' = [attempts EXCEPT ![c] = 0]
  /\ resp' = [resp EXCEPT ![c] = NoResponse]
  /\ chunks' = [chunks EXCEPT ![c] = <<>>]
  /\ outputContent' = [outputContent EXCEPT ![c] = <<>>]

\* the caller invokes sendMessage / sendMessageStream: `await this.sendPromise`
\* reads the field now and resumes when that promise settles
Call(c, k) ==
  /\ pc[c] = "idle"
  /\ \A d \in Calls : d < c => pc[d] # "idle"
  /\ kind' = [kind EXCEPT ![c] = k]
  /\ waitOn' = [waitOn EXCEPT ![c] = sendPromise]
  /\ duringStream' = [duringStream EXCEPT ![c] =
        {s \in Calls : kind[s] = "stream" /\ pc[s] = "streamOpen"}]
  /\ pc' = [pc EXCEPT ![c] = "awaitPrev"]
  /\ UNCHANGED <<history, sendPromise, pstate, loggedResponses, nextId,
                 events, reqContents, reqId, attempts, resp, chunks,
                 outputContent, nPulled, recorded, usageSeen>>
  /\ UNCHANGED cfgVars
  /\ UNCHANGED fnVars
  /\ UNCHANGED logVars
  /\ UNCHANGED toolVars
  /\ UNCHANGED editVars
  /\ UNCHANGED errVars
  /\ UNCHANGED obsVars

\* the awaited promise is rejected: the call throws before its try block
Rejected(c) ==
  /\ pc[c] = "awaitPrev"
  /\ PState(waitOn[c]) = "rejected"
  /\ pc' = [pc EXCEPT ![c] = "rejected"]
  /\ Return(c)
  /\ UNCHANGED <<history, sendPromise, pstate, loggedResponses, nextId,
                 events, kind, reqContents, reqId, nPulled, recorded,
                 usageSeen, duringStream>>
  /\ UNCHANGED cfgVars
  /\ UNCHANGED fnVars
  /\ UNCHANGED logVars
  /\ UNCHANGED toolVars
  /\ UNCHANGED editVars
  /\ UNCHANGED errVars
  /\ UNCHANGED obsVars

\* requestContents = getHistory(true).concat(userContent); _logApiRequest
Resume(c) ==
  /\ pc[c] = "awaitPrev"
  /\ PState(waitOn[c]) = "fulfilled"
  /\ reqContents' = [reqContents EXCEPT ![c] =
        Append(extractCuratedHistory(history), createUserContent(c))]
  /\ reqId' = [reqId EXCEPT ![c] = MintRequestId(nextId)]
  /\ nextId' = nextId + 1
  /\ events' = LogApiRequest(events, c, reqId'[c])
  /\ pc' = [pc EXCEPT ![c] = "logged"]
  /\ UNCHANGED <<history, sendPromise, pstate, loggedResponses, kind, waitOn,
                 attempts, resp, chunks, outputContent, nPulled, recorded,
                 usageSeen, duringStream>>
  /\ UNCHANGED cfgVars
  /\ UNCHANGED fnVars
  /\ UNCHANGED logVars
  /\ UNCHANGED toolVars
  /\ UNCHANGED editVars
  /\ UNCHANGED errVars
  /\ UNCHANGED obsVars

NoRequest == [requestId |-> 0, contents |-> <<>>]

apiCallRequestRebuilt(c) ==
  [requestId |-> reqId[c],
   contents |-> Append(extractCuratedHistory(history), createUserContent(c))]

\* apiCall: the contents and the requestId given to generateContent /
\* generateContentStream
apiCallRequest(c) == [requestId |-> reqId[c], contents |-> reqContents[c]]

\* retryWithBackoff invokes apiCall (first attempt, or after a backoff delay)
StartAttempt(c) ==
  /\ pc[c] \in {"logged", "backoff"}
  /\ attempts' = [attempts EXCEPT ![c] = @ + 1]
  /\ pc' = [pc EXCEPT ![c] = "inTransport"]
  /\ UNCHANGED <<history, sendPromise, pstate, loggedResponses, nextId,
                 events, kind, waitOn, reqContents, reqId, resp, chunks,
                 outputContent, nPulled, recorded, usageSeen, duringStream>>
  /\ UNCHANGED cfgVars
  /\ UNCHANGED fnVars
  /\ UNCHANGED logVars
  /\ UNCHANGED toolVars
  /\ UNCHANGED editVars
  /\ lastError' = [lastError EXCEPT ![c] = NoError]
  /\ attemptModel' = [attemptModel EXCEPT ![c] = model]
  /\ attemptReq' = [attemptReq EXCEPT ![c] = apiCallRequest(c)]
  /\ UNCHANGED accepted
  /\ UNCHANGED obsVars

\* the attempt fails with an error the retry policy retries
RetryLater(c, err) ==
  /\ pc[c] = "inTransport"
  /\ shouldRetry(err)
  /\ attempts[c] < MaxAttempts
  /\ pc' = [pc EXCEPT ![c] = "backoff"]
  /\ UNCHANGED <<history, sendPromise, pstate, loggedResponses, nextId,
                 events, kind, waitOn, reqContents, reqId, attempts, resp,
                 chunks, outputContent, nPulled, recorded, usageSeen,
                 duringStream>>
  /\ UNCHANGED cfgVars
  /\ UNCHANGED fnVars
  /\ UNCHANGED logVars
  /\ UNCHANGED toolVars
  /\ UNCHANGED editVars
  /\ lastError' = [lastError EXCEPT ![c] = err]
  /\ UNCHANGED <<attemptModel, accepted, attemptReq>>
  /\ UNCHANGED obsVars

\* retryWithBackoff: 429s have used up the attempts, onPersistent429 is
\* consulted and returns a model: config.setModel(fallbackModel) has been
\* done, and the retry loop starts over
Fallback(c, authType, handler) ==
  /\ pc[c] = "inTransport"
  /\ attempts[c] >= MaxAttempts
  /\ handleFlashFallback(authType, handler, ErrRateLimit) # "null"
  /\ model' = ModelAfterFallback(authType, handler)
  /\ attempts' = [attempts EXCEPT ![c] = 0]
  /\ pc' = [pc EXCEPT ![c] = "backoff"]
  /\ UNCHANGED <<history, sendPromise, pstate, loggedResponses, nextId,
                 events, kind, waitOn, reqContents, reqId, resp, chunks,
                 outputContent, nPulled, recorded, usageSeen, duringStream>>
  /\ UNCHANGED fnVars
  /\ UNCHANGED logVars
  /\ UNCHANGED toolVars
  /\ UNCHANGED editVars
  /\ lastError' = [lastError EXCEPT ![c] = ErrRateLimit]
  /\ accepted' = TRUE
  /\ UNCHANGED <<attemptModel, attemptReq>>
  /\ UNCHANGED obsVars

\* retryWithBackoff throws (an error that is not retried, or attempts used up
\* and no fallback): the catch block of sendMessage / sendMessageStream
CallFails(c, err, authType, handler) ==
  /\ pc[c] = "inTransport"
  /\ ~(shouldRetry(err) /\ attempts[c] < MaxAttempts)
  /\ ~(err.status = 429 /\ handleFlashFallback(authType, handler, err) # "null")
  /\ events' = LogApiError(events, c)
  /\ sendPromise' = 0
  /\ pc' = [pc EXCEPT ![c] = "failed"]
  /\ Return(c)
  /\ UNCHANGED <<history, pstate, loggedResponses, nextId, kind,
                 reqContents, reqId, nPulled, recorded, usageSeen,
                 duringStream>>
  /\ model' = IF err.status = 429
              THEN ModelAfterFallback(authType, handler)
              ELSE model
  /\ UNCHANGED fnVars
  /\ UNCHANGED logVars
  /\ UNCHANGED toolVars
  /\ UNCHANGED editVars
  /\ UNCHANGED errVars
  /\ UNCHANGED obsVars

\* sendMessage: the transport returns; _logApiResponse; await
SendReturn(c, r) ==
  /\ kind[c] = "send"
  /\ pc[c] = "inTransport"
  /\ resp' = [resp EXCEPT ![c] = r]
  /\ delivered' = [delivered EXCEPT ![c] = <<r>>]
  /\ usageSeen' = [usageSeen EXCEPT ![c] = (r.usage # 0)]
  /\ LogApiResponse(c, reqId[c], r.usage, JSONStringify(<<r>>, FALSE))
  /\ pc' = [pc EXCEPT ![c] = "respLogged"]
  /\ UNCHANGED <<history, sendPromise, pstate, nextId, kind, waitOn,
                 reqContents, reqId, attempts, chunks, outputContent,
                 nPulled, recorded, duringStream>>
  /\ UNCHANGED cfgVars
  /\ UNCHANGED fnVars
  /\ UNCHANGED logVars
  /\ UNCHANGED toolVars
  /\ UNCHANGED editVars
  /\ UNCHANGED errVars
  /\ UNCHANGED <<yielded, appended>>

\* sendMessage: this.sendPromise = (async () => {... recordHistory ...})();
\* the body has no await, so the promise is settled when it is assigned.
\* getHistory(true) or recordHistory may throw (throws) before history changes.
SendCommit(c, throws) ==
  /\ kind[c] = "send"
  /\ pc[c] = "respLogged"
  /\ IF throws
     THEN /\ pstate' = [pstate EXCEPT ![c] = "rejected"]
          /\ UNCHANGED <<history, recorded, appended>>
     ELSE /\ LET outputContent_ == resp[c].content
                 index == Len(extractCuratedHistory(history))
                 full == resp[c].afc
                 afc == IF index >= Len(full) THEN <<>>
                        ELSE SubSeq(full, index + 1, Len(full))
                 modelOutput == IF outputContent_ = NoContent THEN <<>>
                                ELSE <<outputContent_>>
             IN history' = recordHistory(history, createUserContent(c),
                                         modelOutput, afc)
          /\ appended' = [appended EXCEPT ![c] =
                SubSeq(history', Len(history) + 1, Len(history'))]
          /\ recorded' = recorded \cup {c}
          /\ pstate' = [pstate EXCEPT ![c] = "fulfilled"]
  /\ sendPromise' = c
  /\ pc' = [pc EXCEPT ![c] = "awaitCatch"]
  /\ UNCHANGED <<loggedResponses, nextId, events, kind, waitOn, reqContents,
                 reqId, attempts, resp, chunks, outputContent, nPulled,
                 usageSeen, duringStream>>
  /\ UNCHANGED cfgVars
  /\ UNCHANGED fnVars
  /\ UNCHANGED logVars
  /\ UNCHANGED toolVars
  /\ UNCHANGED editVars
  /\ UNCHANGED errVars
  /\ UNCHANGED <<delivered, yielded>>

\* sendMessage: await this.sendPromise.catch(() => {this.sendPromise =
\* Promise.resolve()}); return response
SendSettle(c) ==
  /\ kind[c] = "send"
  /\ pc[c] = "awaitCatch"
  /\ sendPromise' = IF pstate[c] = "rejected" THEN 0 ELSE sendPromise
  /\ pc' = [pc EXCEPT ![c] = "done"]
  /\ Return(c)
  /\ UNCHANGED <<history, pstate, loggedResponses, nextId, events, kind,
                 reqContents, reqId, nPulled, recorded, usageSeen,
                 duringStream>>
  /\ UNCHANGED cfgVars
  /\ UNCHANGED fnVars
  /\ UNCHANGED logVars
  /\ UNCHANGED toolVars
  /\ UNCHANGED editVars
  /\ UNCHANGED errVars
  /\ UNCHANGED obsVars

\* sendMessageStream: the transport returns the chunk generator;
\* this.sendPromise = Promise.resolve(streamResponse).then(..).catch(..);
\* the generator of processStreamResponse is returned to the caller, not started
StreamOpen(c) ==
  /\ kind[c] = "stream"
  /\ pc[c] = "inTransport"
  /\ pstate' = [pstate EXCEPT ![c] = "pending"]
  /\ sendPromise' = c
  /\ pc' = [pc EXCEPT ![c] = "streamOpen"]
  /\ UNCHANGED <<history, loggedResponses, nextId, events, kind, waitOn,
                 reqContents, reqId, attempts, resp, chunks, outputContent,
                 nPulled, recorded, usageSeen, duringStream>>
  /\ UNCHANGED cfgVars
  /\ UNCHANGED fnVars
  /\ UNCHANGED logVars
  /\ UNCHANGED toolVars
  /\ UNCHANGED editVars
  /\ UNCHANGED errVars
  /\ UNCHANGED obsVars

\* the promise chain on the (non-thenable) generator fulfils by itself
PromiseSettle(c) ==
  /\ pstate[c] = "pending"
  /\ pstate' = [pstate EXCEPT ![c] = "fulfilled"]
  /\ UNCHANGED <<history, sendPromise, loggedResponses, nextId, events, pc,
                 kind, waitOn, reqContents, reqId, attempts, resp, chunks,
                 outputContent, nPulled, recorded, usageSeen, duringStream>>
  /\ UNCHANGED cfgVars
  /\ UNCHANGED fnVars
  /\ UNCHANGED logVars
  /\ UNCHANGED toolVars
  /\ UNCHANGED editVars
  /\ UNCHANGED errVars
  /\ UNCHANGED obsVars

StreamChunkThoughtNotYielded(c, chunk) ==
  /\ kind[c] = "stream"
  /\ pc[c] = "streamOpen"
  /\ nPulled' = [nPulled EXCEPT ![c] = @ + 1]
  /\ delivered' = [delivered EXCEPT ![c] = Append(@, chunk)]
  /\ yielded' = IF isValidResponse(chunk) /\ isThoughtContent(chunk.content)
                THEN yielded
                ELSE [yielded EXCEPT ![c] = Append(@, chunk)]
  /\ UNCHANGED appended
  /\ usageSeen' = [usageSeen EXCEPT ![c] = @ \/ chunk.usage # 0]
  /\ IF isValidResponse(chunk)
     THEN /\ chunks' = [chunks EXCEPT ![c] = Append(@, chunk)]
          /\ outputContent' =
               IF isThoughtContent(chunk.content) THEN outputContent
               ELSE [outputContent EXCEPT ![c] = Append(@, chunk.content)]
     ELSE UNCHANGED <<chunks, outputContent>>
  /\ UNCHANGED <<history, sendPromise, pstate, loggedResponses, nextId,
                 events, pc, kind, waitOn, reqContents, reqId, attempts,
                 resp, recorded, duringStream>>
  /\ UNCHANGED cfgVars
  /\ UNCHANGED fnVars
  /\ UNCHANGED logVars
  /\ UNCHANGED toolVars
  /\ UNCHANGED editVars
  /\ UNCHANGED errVars

\* processStreamResponse: the consumer pulls, the transport delivers a chunk,
\* the loop body runs and the chunk is yielded
StreamChunk(c, chunk) ==
  /\ kind[c] = "stream"
  /\ pc[c] = "streamOpen"
  /\ nPulled' = [nPulled EXCEPT ![c] = @ + 1]
  /\ delivered' = [delivered EXCEPT ![c] = Append(@, chunk)]
  /\ yielded' = [yielded EXCEPT ![c] = Append(@, chunk)]
  /\ UNCHANGED appended
  /\ usageSeen' = [usageSeen EXCEPT ![c] = @ \/ chunk.usage # 0]
  /\ IF isValidResponse(chunk)
     THEN /\ chunks' = [chunks EXCEPT ![c] = Append(@, chunk)]
          /\ outputContent' =
               IF isThoughtContent(chunk.content) THEN outputContent
               ELSE [outputContent EXCEPT ![c] = Append(@, chunk.content)]
     ELSE UNCHANGED <<chunks, outputContent>>
  /\ UNCHANGED <<history, sendPromise, pstate, loggedResponses, nextId,
                 events, pc, kind, waitOn, reqContents, reqId, attempts,
                 resp, recorded, duringStream>>
  /\ UNCHANGED cfgVars
  /\ UNCHANGED fnVars
  /\ UNCHANGED logVars
  /\ UNCHANGED toolVars
  /\ UNCHANGED editVars
  /\ UNCHANGED errVars

StreamErrorSwallowed(c) ==
  /\ kind[c] = "stream"
  /\ pc[c] = "streamOpen"
  /\ events' = LogApiError(events, c)
  /\ history' = recordHistory(history, createUserContent(c),
                              outputContent[c], <<>>)
  /\ appended' = [appended EXCEPT ![c] =
        SubSeq(history', Len(history) + 1, Len(history'))]
  /\ recorded' = recorded \cup {c}
  /\ pc' = [pc EXCEPT ![c] = "streamFailed"]
  /\ Return(c)
  /\ UNCHANGED <<sendPromise, pstate, loggedResponses, nextId, kind,
                 reqContents, reqId, nPulled, usageSeen, duringStream>>
  /\ UNCHANGED cfgVars
  /\ UNCHANGED fnVars
  /\ UNCHANGED logVars
  /\ UNCHANGED toolVars
  /\ UNCHANGED editVars
  /\ UNCHANGED errVars
  /\ UNCHANGED <<delivered, yielded>>

StreamErrorResumes(c) ==
  /\ kind[c] = "stream"
  /\ pc[c] = "streamOpen"
  /\ \A i \in DOMAIN events :
       ~(events[i].type = "api_error" /\ events[i].ex = c)
  /\ events' = LogApiError(events, c)
  /\ UNCHANGED <<history, sendPromise, pstate, loggedResponses, nextId,
                 kind, reqContents, reqId, nPulled, recorded, usageSeen,
                 duringStream, pc, waitOn, attempts, resp, chunks,
                 outputContent>>
  /\ UNCHANGED cfgVars
  /\ UNCHANGED fnVars
  /\ UNCHANGED logVars
  /\ UNCHANGED toolVars
  /\ UNCHANGED editVars
  /\ UNCHANGED errVars
  /\ UNCHANGED obsVars

\* processStreamResponse: the for-await throws; catch: _logApiError; throw
StreamError(c) ==
  /\ kind[c] = "stream"
  /\ pc[c] = "streamOpen"
  /\ events' = LogApiError(events, c)
  /\ pc' = [pc EXCEPT ![c] = "streamFailed"]
  /\ Return(c)
  /\ UNCHANGED <<history, sendPromise, pstate, loggedResponses, nextId,
                 kind, reqContents, reqId, nPulled, recorded, usageSeen,
                 duringStream>>
  /\ UNCHANGED cfgVars
  /\ UNCHANGED fnVars
  /\ UNCHANGED logVars
  /\ UNCHANGED toolVars
  /\ UNCHANGED editVars
  /\ UNCHANGED errVars
  /\ UNCHANGED obsVars

StreamExhaustRecordFirst(c) ==
  /\ kind[c] = "stream"
  /\ pc[c] = "streamOpen"
  /\ history' = recordHistory(history, createUserContent(c),
                              outputContent[c], <<>>)
  /\ appended' = [appended EXCEPT ![c] =
        SubSeq(history', Len(history) + 1, Len(history'))]
  /\ recorded' = recorded \cup {c}
  /\ LogApiResponse(c, reqId[c], getFinalUsageMetadata(chunks[c]),
                    JSONStringify(chunks[c], TRUE))
  /\ pc' = [pc EXCEPT ![c] = "done"]
  /\ Return(c)
  /\ UNCHANGED <<sendPromise, pstate, nextId, kind, reqContents, reqId,
                 nPulled, usageSeen, duringStream>>
  /\ UNCHANGED cfgVars
  /\ UNCHANGED fnVars
  /\ UNCHANGED logVars
  /\ UNCHANGED toolVars
  /\ UNCHANGED editVars
  /\ UNCHANGED errVars
  /\ UNCHANGED <<delivered, yielded>>

\* processStreamResponse: the stream is exhausted; _logApiResponse; await
StreamExhaust(c) ==
  /\ kind[c] = "stream"
  /\ pc[c] = "streamOpen"
  /\ LogApiResponse(c, reqId[c], getFinalUsageMetadata(chunks[c]),
                    JSONStringify(chunks[c], TRUE))
  /\ pc' = [pc EXCEPT ![c] = "streamEnd"]
  /\ UNCHANGED <<history, sendPromise, pstate, nextId, kind, waitOn,
                 reqContents, reqId, attempts, resp, chunks, outputContent,
                 nPulled, recorded, usageSeen, duringStream>>
  /\ UNCHANGED cfgVars
  /\ UNCHANGED fnVars
  /\ UNCHANGED logVars
  /\ UNCHANGED toolVars
  /\ UNCHANGED editVars
  /\ UNCHANGED errVars
  /\ UNCHANGED obsVars

\* processStreamResponse: this.recordHistory(inputContent, outputContent)
StreamRecord(c) ==
  /\ kind[c] = "stream"
  /\ pc[c] = "streamEnd"
  /\ history' = recordHistory(history, createUserContent(c),
                              outputContent[c], <<>>)
  /\ appended' = [appended EXCEPT ![c] =
        SubSeq(history', Len(history) + 1, Len(history'))]
  /\ recorded' = recorded \cup {c}
  /\ pc' = [pc EXCEPT ![c] = "done"]
  /\ Return(c)
  /\ UNCHANGED <<sendPromise, pstate, loggedResponses, nextId, events,
                 kind, reqContents, reqId, nPulled, usageSeen,
                 duringStream>>
  /\ UNCHANGED cfgVars
  /\ UNCHANGED fnVars
  /\ UNCHANGED logVars
  /\ UNCHANGED toolVars
  /\ UNCHANGED editVars
  /\ UNCHANGED errVars
  /\ UNCHANGED <<delivered, yielded>>

StreamAbandonRecords(c) ==
  /\ kind[c] = "stream"
  /\ pc[c] = "streamOpen"
  /\ history' = recordHistory(history, createUserContent(c),
                              outputContent[c], <<>>)
  /\ appended' = [appended EXCEPT ![c] =
        SubSeq(history', Len(history) + 1, Len(history'))]
  /\ pc' = [pc EXCEPT ![c] = "abandoned"]
  /\ Return(c)
  /\ UNCHANGED <<sendPromise, pstate, loggedResponses, nextId,
                 events, kind, reqContents, reqId, nPulled, recorded,
                 usageSeen, duringStream>>
  /\ UNCHANGED cfgVars
  /\ UNCHANGED fnVars
  /\ UNCHANGED logVars
  /\ UNCHANGED toolVars
  /\ UNCHANGED editVars
  /\ UNCHANGED errVars
  /\ UNCHANGED <<delivered, yielded>>

\* the consumer stops pulling: the generator stays suspended at its yield
StreamAbandon(c) ==
  /\ kind[c] = "stream"
  /\ pc[c] = "streamOpen"
  /\ pc' = [pc EXCEPT ![c] = "abandoned"]
  /\ Return(c)
  /\ UNCHANGED <<history, sendPromise, pstate, loggedResponses, nextId,
                 events, kind, reqContents, reqId, nPulled, recorded,
                 usageSeen, duringStream>>
  /\ UNCHANGED cfgVars
  /\ UNCHANGED fnVars
  /\ UNCHANGED logVars
  /\ UNCHANGED toolVars
  /\ UNCHANGED editVars
  /\ UNCHANGED errVars
  /\ UNCHANGED obsVars

\* ------------------------------------------------- request annotation
\* texts of this section are sequences of characters

\* String.prototype.includes
includes(text, s) ==
  \E i \in 0..(Len(text) - Len(s)) : SubSeq(text, i + 1, i + Len(s)) = s

LowerOf(ch) ==
  CASE ch = "R" -> "r" [] ch = "E" -> "e" [] ch = "A" -> "a"
    [] ch = "D" -> "d" [] ch = "L" -> "l" [] ch = "S" -> "s"
    [] OTHER -> ch

\* String.prototype.toLowerCase
toLowerCase(text) == [i \in 1..Len(text) |-> LowerOf(text[i])]

\* _extractToolsCalled: the tools in the order of its tests, each with the
\* patterns that indicate it
ToolPatterns ==
  << [tool |-> "read_file",
      pats |-> {<<"@">>, <<"r", "e", "a", "d">>, <<"f", "i", "l", "e">>}],
     [tool |-> "write_file",
      pats |-> {<<"w", "r", "i", "t", "e">>, <<"c", "r", "e", "a", "t", "e">>,
                <<"s", "a", "v", "e">>}],
     [tool |-> "replace",
      pats |-> {<<"e", "d", "i", "t">>, <<"m", "o", "d", "i", "f", "y">>,
                <<"c", "h", "a", "n", "g", "e">>}],
     [tool |-> "search_file_content",
      pats |-> {<<"s", "e", "a", "r", "c", "h">>, <<"f", "i", "n", "d">>,
                <<"g", "r", "e", "p">>}],
     [tool |-> "list_directory",
      pats |-> {<<"l", "i", "s", "t">>, <<"l", "s">>,
                <<"d", "i", "r", "e", "c", "t", "o", "r", "y">>}],
     [tool |-> "run_shell_command",
      pats |-> {<<"r", "u", "n">>, <<"e", "x", "e", "c", "u", "t", "e">>,
                <<"b", "a", "s", "h">>,
                <<"c", "o", "m", "m", "a", "n", "d">>}],
     [tool |-> "web_fetch",
      pats |-> {<<"w", "e", "b">>, <<"h", "t", "t", "p">>,
                <<"u", "r", "l">>}] >>

\* the tools pushed for one text part, from test i on
RECURSIVE ToolsOfText(_, _)
ToolsOfText(text, i) ==
  IF i > Len(ToolPatterns) THEN <<>>
  ELSE (IF \E pat \in ToolPatterns[i].pats : includes(text, pat)
        THEN <<ToolPatterns[i].tool>> ELSE <<>>)
       \o ToolsOfText(text, i + 1)

\* the tools pushed for the parts of a content, from part i on
RECURSIVE ToolsOfParts(_, _)
ToolsOfParts(parts, i) ==
  IF i > Len(parts) THEN <<>>
  ELSE (IF parts[i].k = "text" /\ parts[i].t # <<>>
        THEN ToolsOfText(toLowerCase(parts[i].t), 1) ELSE <<>>)
       \o ToolsOfParts(parts, i + 1)

\* [...new Set(array)]: first occurrences, in order
RECURSIVE Distinct(_)
Distinct(arr) ==
  IF arr = <<>> THEN <<>>
  ELSE LET init == Distinct(SubSeq(arr, 1, Len(arr) - 1))
           last == arr[Len(arr)]
       IN IF \E i \in 1..Len(init) : init[i] = last
          THEN init ELSE Append(init, last)

extractToolsCalledFirstUser(contents) ==
  LET users == {i \in 1..Len(contents) : contents[i].role = "user"}
  IN IF users = {} THEN <<>>
     ELSE LET first == CHOOSE i \in users : \A j \in users : i <= j
          IN Distinct(ToolsOfParts(contents[first].parts, 1))

\* _extractToolsCalled(contents)
extractToolsCalled(contents) ==
  LET users == {i \in 1..Len(contents) : contents[i].role = "user"}
  IN IF users = {} THEN <<>>
     ELSE LET latest == CHOOSE i \in users : \A j \in users : j <= i
          IN Distinct(ToolsOfParts(contents[latest].parts, 1))

\* ------------------------------------------------- UserBehaviorLogger
\* the session id of the config the logger is constructed with
SessionId == <<1, 2, 3, 4, 5, 6, 7, 8, 9, 10>>

\* the session id of another config
OtherSessionId == <<2, 2, 3, 4, 5, 6, 7, 8, 9, 10>>

\* the configs getInstance is called with
Configs ==
  [sessionId : {SessionId, OtherSessionId}, telemetryEnabled : BOOLEAN]

\* String.prototype.substring(a, b)
Substring(str, a, b) ==
  SubSeq(str, a + 1, IF b < Len(str) THEN b ELSE Len(str))

\* crypto.createHash('sha256').update(x).digest('hex').substring(0, 16):
\* a value determined by x
Sha256Hex16(x) == [sha256 |-> x, hexChars |-> 16]

\* a || b on strings
OrElse(a, b) == IF a # "" THEN a ELSE b

Env0 ==
  [QWEN_STUDENT_ID |-> "", USER |-> "alice", username |-> "alice",
   hostname |-> "lab", platform |-> "linux", arch |-> "x64",
   cpu |-> "cpu0", HOME |-> "/home/alice", USERPROFILE |-> ""]

Env1 ==
  [QWEN_STUDENT_ID |-> "s42", USER |-> "bob", username |-> "bob",
   hostname |-> "home", platform |-> "linux", arch |-> "x64",
   cpu |-> "cpu0", HOME |-> "", USERPROFILE |-> ""]

Envs == {Env0, Env1}

generateStudentIdHash(e) ==
  Sha256Hex16(OrElse(e.QWEN_STUDENT_ID,
                     OrElse(e.USER, OrElse(e.username, "anonymous"))))

generateMachineIdHash(e) ==
  Sha256Hex16(<<e.hostname, e.platform, e.arch, OrElse(e.cpu, "unknown"),
                OrElse(e.HOME, OrElse(e.USERPROFILE, "unknown"))>>)

\* generateLogFilePath with this.currentRollNumber = roll:
\* `${dateStr}-${sessionId}${rollSuffix}.jsonl`, no suffix for roll 0
generateLogFilePath(roll) ==
  [date |-> today, session |-> Substring(sessionId, 0, 8), roll |-> roll]

Paths ==
  [date : 1..MaxDays,
   session : {Substring(SessionId, 0, 8), Substring(OtherSessionId, 0, 8)},
   roll : 0..MaxEvents]

NoPath == [date |-> 0, session |-> <<>>, roll |-> 0]

\* a file: bytes it held before the logger was constructed, lines appended
NoFile == [exists |-> FALSE, base |-> 0, lines |-> <<>>]

\* byte length of a line of an ordinary event
SmallLine == 200

\* byte lengths of the lines logged: ordinary, one byte more, above the cap
LineBytes == {SmallLine, SmallLine + 1, maxFileSize + 1}

\* a file left by an earlier process, one ordinary line below the cap
NearlyFull ==
  [exists |-> TRUE, base |-> maxFileSize - SmallLine, lines |-> <<>>]

PreExisting == {NoFile, NearlyFull}

RECURSIVE SumBytes(_)
SumBytes(lines) ==
  IF lines = <<>> THEN 0 ELSE Head(lines).bytes + SumBytes(Tail(lines))

\* fs.existsSync(p)
existsSync(p) == fsFiles[p].exists

\* fs.statSync(p).size
statSize(p) == fsFiles[p].base + SumBytes(fsFiles[p].lines)

checkAndRollFileAtCap(bytes) ==
  IF existsSync(currentLogFilePath)
     /\ statSize(currentLogFilePath) + bytes >= maxFileSize
  THEN [roll |-> currentRollNumber + 1,
        path |-> generateLogFilePath(currentRollNumber + 1)]
  ELSE [roll |-> currentRollNumber, path |-> currentLogFilePath]

\* checkAndRollFile(logLine), bytes = Buffer.byteLength(logLine, 'utf8'):
\* currentRollNumber and currentLogFilePath when it returns
checkAndRollFile(bytes) ==
  IF existsSync(currentLogFilePath)
     /\ statSize(currentLogFilePath) + bytes > maxFileSize
  THEN [roll |-> currentRollNumber + 1,
        path |-> generateLogFilePath(currentRollNumber + 1)]
  ELSE [roll |-> currentRollNumber, path |-> currentLogFilePath]

\* new Date(t).toISOString()
toISOString(t) == [iso |-> t]

OwnFields == {"sessionId", "studentIdHash", "machineIdHash", "timestamp"}

logEntryEventWins(event) ==
  [f \in DOMAIN event \cup OwnFields |->
     IF f \in DOMAIN event /\ f # "timestamp" THEN event[f]
     ELSE IF f = "sessionId" THEN sessionId
     ELSE IF f = "studentIdHash" THEN studentIdHash
     ELSE IF f = "machineIdHash" THEN machineIdHash
     ELSE toISOString(event.timestamp)]

\* logEvent: {...event, sessionId, studentIdHash, machineIdHash, timestamp}
logEntry(event) ==
  [f \in DOMAIN event \cup OwnFields |->
     IF f = "sessionId" THEN sessionId
     ELSE IF f = "studentIdHash" THEN studentIdHash
     ELSE IF f = "machineIdHash" THEN machineIdHash
     ELSE IF f = "timestamp" THEN toISOString(event.timestamp)
     ELSE event[f]]

\* the events logged: one without identity fields, one carrying its own
LoggedEvents ==
  {[eventType |-> "typing_start", timestamp |-> 1],
   [eventType |-> "api_request", timestamp |-> 2, sessionId |-> <<9, 9>>,
    studentIdHash |-> Sha256Hex16("mallory"),
    machineIdHash |-> Sha256Hex16(<<"elsewhere">>)]}

appendFileSyncTruncates(files, p, line) ==
  [files EXCEPT ![p] = [exists |-> TRUE, base |-> 0, lines |-> <<line>>]]

appendFileSyncPrepends(files, p, line) ==
  [files EXCEPT ![p] = [exists |-> TRUE, base |-> @.base,
                        lines |-> <<line>> \o @.lines]]

\* fs.appendFileSync(p, line)
appendFileSync(files, p, line) ==
  [files EXCEPT ![p] = [exists |-> TRUE, base |-> @.base,
                        lines |-> Append(@.lines, line)]]

getTelemetryEnabledIgnored == TRUE

\* logEvent: this.config.getTelemetryEnabled()
getTelemetryEnabled == telemetryEnabled

\* what fs.appendFileSync does: succeeds or throws
FsOutcomes == {"ok", "throws"}

logEventOutcomeNoCatch(threw) == IF threw THEN "rejected" ELSE "resolved"

\* logEvent: how its promise settles (try / catch: console.error)
logEventOutcome(threw) == IF threw THEN "resolved" ELSE "resolved"

NoLog == [called |-> FALSE]

NoGet == [called |-> FALSE]

getInstanceRebinds(instance, config) ==
  [constructed |-> TRUE, config |-> config]

\* static getInstance(config): the instance, made on the first call only
getInstance(instance, config) ==
  IF ~instance.constructed
  THEN [constructed |-> TRUE, config |-> config]
  ELSE instance

\* new UserBehaviorLogger(config), with files f0 and f1 already in the logs
\* directory under the names of rolls 0 and 1
Constructor(enabled, f0, f1) ==
  /\ today = 1
  /\ env = Env0
  /\ telemetryEnabled = enabled
  /\ sessionId = SessionId
  /\ lastGet = NoGet
  /\ studentIdHash = generateStudentIdHash(Env0)
  /\ machineIdHash = generateMachineIdHash(Env0)
  /\ currentRollNumber = 0
  /\ currentLogFilePath =
       [date |-> 1, session |-> Substring(SessionId, 0, 8), roll |-> 0]
  /\ fsFiles = [p \in Paths |->
                  IF p.session # Substring(SessionId, 0, 8) THEN NoFile
                  ELSE IF p.date = 1 /\ p.roll = 0 THEN f0
                  ELSE IF p.date = 1 /\ p.roll = 1 THEN f1
                  ELSE NoFile]
  /\ nLog = 0
  /\ lastLog = NoLog

\* ------------------------------------------------------- specification
\* new GeminiChat(config, contentGenerator) with the default empty history
InitSession ==
  /\ history = <<>>
  /\ sendPromise = 0
  /\ pstate = [c \in Calls |-> "none"]
  /\ loggedResponses = <<>>
  /\ nextId = 1
  /\ model = "pro"
  /\ events = <<>>
  /\ pc = [c \in Calls |-> "idle"]
  /\ kind = [c \in Calls |-> "none"]
  /\ waitOn = [c \in Calls |-> 0]
  /\ reqContents = [c \in Calls |-> <<>>]
  /\ reqId = [c \in Calls |-> 0]
  /\ attempts = [c \in Calls |-> 0]
  /\ resp = [c \in Calls |-> NoResponse]
  /\ chunks = [c \in Calls |-> <<>>]
  /\ outputContent = [c \in Calls |-> <<>>]
  /\ nPulled = [c \in Calls |-> 0]
  /\ recorded = {}
  /\ usageSeen = [c \in Calls |-> FALSE]
  /\ duringStream = [c \in Calls |-> {}]
  /\ delivered = [c \in Calls |-> <<>>]
  /\ yielded = [c \in Calls |-> <<>>]
  /\ appended = [c \in Calls |-> <<>>]
  /\ lastError = [c \in Calls |-> NoError]
  /\ attemptModel = [c \in Calls |-> "none"]
  /\ accepted = FALSE
  /\ attemptReq = [c \in Calls |-> NoRequest]

Init ==
  /\ InitSession
  /\ curIn = <<>>
  /\ curOut = <<>>
  /\ curAgain = <<>>
  /\ phase = "in"
  /\ logCalls = 0
  /\ fbOut = NoCall
  /\ toolsIn = <<>>
  /\ toolsOut = <<>>
  /\ nEdits = 0
  /\ Constructor(TRUE, NoFile, NoFile)

Next ==
  \E c \in Calls :
    \/ \E k \in {"send", "stream"} : Call(c, k)
    \/ Rejected(c)
    \/ Resume(c)
    \/ StartAttempt(c)
    \/ \E err \in Errors : RetryLater(c, err)
    \/ \E authType \in AuthTypes, handler \in Handlers :
         Fallback(c, authType, handler)
    \/ \E err \in Errors, authType \in AuthTypes, handler \in Handlers :
         CallFails(c, err, authType, handler)
    \/ \E r \in SendResponses(c) : SendReturn(c, r)
    \/ \E throws \in BOOLEAN : SendCommit(c, throws)
    \/ SendSettle(c)
    \/ StreamOpen(c)
    \/ PromiseSettle(c)
    \/ \E chunk \in StreamChunks(c, nPulled[c] + 1) :
         nPulled[c] < MaxChunks /\ StreamChunk(c, chunk)
    \/ StreamError(c)
    \/ StreamExhaust(c)
    \/ StreamRecord(c)
    \/ StreamAbandon(c)

Spec == Init /\ [][Next]_vars

\* ------------------------------- one exchange at a time, richer contents
\* The caller awaits each sendMessage and consumes each stream to its end (or
\* to its error) before the next call; the transport may return tool calls,
\* empty contents and an automatic-function-calling history.
ModelFc == Content("model", <<FcPart>>)
ModelMixed(c) == Content("model", <<TextPart(<<10 * c>>), FcPart>>)
UserFr == Content("user", <<FrPart>>)
ModelThoughtText(c) == Content("model", <<ThoughtPart, TextPart(<<10 * c>>)>>)

SeqResponses(c) ==
  { Response(ModelText(c, 0), 1), Response(ModelThought, 1),
    Response(NoContent, 1), Response(ModelEmpty, 0),
    Response(ModelFc, 1), Response(ModelMixed(c), 1),
    Response(ModelThoughtText(c), 1) }

\* response.automaticFunctionCallingHistory beyond the contents of the
\* request: absent, a tool call and its result, or an empty text and a result
AfcTails == { <<>>, <<ModelFc, UserFr>>, <<ModelEmptyText, UserFr>> }

WithAfc(c, r, tail) ==
  [r EXCEPT !.afc = IF tail = <<>> THEN <<>> ELSE reqContents[c] \o tail]

SeqChunks(c, n) ==
  { Response(ModelText(c, n), 0), Response(ModelText(c, n), n),
    Response(ModelThought, 0), Response(ModelEmptyText, n),
    Response(ModelFc, n), Response(ModelThoughtText(c), 0) }

Terminal == {"idle", "done", "failed", "streamFailed", "abandoned", "rejected"}

NextSeq ==
  \E c \in Calls :
    \/ \E k \in {"send", "stream"} :
         (\A d \in Calls : pc[d] \in Terminal) /\ Call(c, k)
    \/ Resume(c)
    \/ StartAttempt(c)
    \/ \E err \in Errors : RetryLater(c, err)
    \/ \E authType \in AuthTypes, handler \in Handlers :
         Fallback(c, authType, handler)
    \/ \E err \in Errors, authType \in AuthTypes, handler \in Handlers :
         CallFails(c, err, authType, handler)
    \/ \E r \in SeqResponses(c), tail \in AfcTails :
         SendReturn(c, WithAfc(c, r, tail))
    \/ SendCommit(c, FALSE)
    \/ SendSettle(c)
    \/ StreamOpen(c)
    \/ PromiseSettle(c)
    \/ \E chunk \in SeqChunks(c, nPulled[c] + 1) :
         nPulled[c] < MaxSeqChunks /\ StreamChunk(c, chunk)
    \/ StreamError(c)
    \/ StreamExhaust(c)
    \/ StreamRecord(c)

SpecSeq == Init /\ [][NextSeq]_vars

\* ------------------------------------- extractCuratedHistory on its own
sessVars == <<history, sendPromise, pstate, loggedResponses, nextId, model,
              events,
              pc, kind, waitOn, reqContents, reqId, attempts, resp, chunks,
              outputContent, nPulled, recorded, usageSeen, duringStream,
              delivered, yielded, appended, lastError, attemptModel,
              accepted, attemptReq>>

UserA == Content("user", <<TextPart(<<1>>)>>)
UserB == Content("user", <<TextPart(<<2>>)>>)
ModelOk == Content("model", <<TextPart(<<3>>)>>)

ModelEmptyObj == Content("model", <<EmptyObjPart>>)

Turns == {UserA, UserB, ModelOk, ModelThought, ModelEmpty, ModelEmptyText,
          ModelEmptyObj}

RECURSIVE SeqsUpTo(_, _)
SeqsUpTo(S, n) ==
  IF n = 0 THEN {<<>>}
  ELSE LET shorter == SeqsUpTo(S, n - 1)
       IN shorter \cup {Append(q, x) : q \in shorter, x \in S}

InitCurate ==
  /\ InitSession
  /\ curIn \in SeqsUpTo(Turns, MaxHist)
  /\ curOut = <<>>
  /\ curAgain = <<>>
  /\ phase = "in"
  /\ logCalls = 0
  /\ fbOut = NoCall
  /\ toolsIn = <<>>
  /\ toolsOut = <<>>
  /\ nEdits = 0
  /\ Constructor(TRUE, NoFile, NoFile)

\* getHistory(true) on a session whose history is curIn
Curate ==
  /\ phase = "in"
  /\ curOut' = extractCuratedHistory(curIn)
  /\ phase' = "out"
  /\ UNCHANGED <<curIn, curAgain, logCalls, fbOut>>
  /\ UNCHANGED logVars
  /\ UNCHANGED toolVars
  /\ UNCHANGED editVars
  /\ UNCHANGED sessVars

\* getHistory(true) on a session whose history is that curated history
CurateAgain ==
  /\ phase = "out"
  /\ curAgain' = extractCuratedHistory(curOut)
  /\ phase' = "again"
  /\ UNCHANGED <<curIn, curOut, logCalls, fbOut>>
  /\ UNCHANGED logVars
  /\ UNCHANGED toolVars
  /\ UNCHANGED editVars
  /\ UNCHANGED sessVars

NextCurate == Curate \/ CurateAgain

SpecCurate == InitCurate /\ [][NextCurate]_vars

\* ------------------------------------------- _logApiResponse on its own
\* _logApiResponse(durationMs, prompt_id, requestId, usageMetadata, text)
\* called with a request id chosen by the caller
DirectLogApiResponse(requestId, usageMetadata) ==
  /\ logCalls < MaxLogCalls
  /\ logCalls' = logCalls + 1
  /\ LogApiResponse(0, requestId, usageMetadata, NoText)
  /\ UNCHANGED <<history, sendPromise, pstate, nextId, model, pc, kind,
                 waitOn, reqContents, reqId, attempts, resp, chunks,
                 outputContent, nPulled, recorded, usageSeen, duringStream>>
  /\ UNCHANGED <<curIn, curOut, curAgain, phase, fbOut>>
  /\ UNCHANGED logVars
  /\ UNCHANGED toolVars
  /\ UNCHANGED editVars
  /\ UNCHANGED errVars
  /\ UNCHANGED obsVars

NextDedup ==
  \E requestId \in 1..MaxLogIds, usageMetadata \in {0, 1} :
    DirectLogApiResponse(requestId, usageMetadata)

SpecDedup == Init /\ [][NextDedup]_vars

\* ------------------------------------------- UserBehaviorLogger on its own
\* logEvent(event), the line being `bytes` long and appendFileSync doing `fs`
LogEvent(event, bytes, fs) ==
  /\ nLog < MaxEvents
  /\ nLog' = nLog + 1
  /\ LET r == checkAndRollFile(bytes)
         line == [entry |-> logEntry(event), bytes |-> bytes]
         logs == getTelemetryEnabled
         wrote == logs /\ fs = "ok"
     IN /\ currentRollNumber' =
             IF logs THEN r.roll ELSE currentRollNumber
        /\ currentLogFilePath' =
             IF logs THEN r.path ELSE currentLogFilePath
        /\ fsFiles' =
             IF wrote THEN appendFileSync(fsFiles, r.path, line) ELSE fsFiles
        /\ lastLog' =
             [called |-> TRUE, enabled |-> telemetryEnabled, fs |-> fs,
              envAt |-> env,
              bytes |-> bytes,
              line |-> line,
              rollBefore |-> currentRollNumber,
              pathBefore |-> currentLogFilePath,
              existedBefore |-> existsSync(currentLogFilePath),
              sizeBefore |-> statSize(currentLogFilePath),
              wrote |-> IF wrote THEN r.path ELSE NoPath,
              outcome |->
                logEventOutcome(logs /\ fs = "throws")]
  /\ UNCHANGED <<studentIdHash, machineIdHash, telemetryEnabled, env, today,
                 sessionId, lastGet>>
  /\ UNCHANGED sessVars
  /\ UNCHANGED fnVars
  /\ UNCHANGED toolVars
  /\ UNCHANGED editVars

\* the date changes
Midnight ==
  /\ today < MaxDays
  /\ today' = today + 1
  /\ UNCHANGED <<fsFiles, currentRollNumber, currentLogFilePath,
                 studentIdHash, machineIdHash, telemetryEnabled, env, nLog,
                 lastLog, sessionId, lastGet>>
  /\ UNCHANGED sessVars
  /\ UNCHANGED fnVars
  /\ UNCHANGED toolVars
  /\ UNCHANGED editVars

\* the environment changes: process.env, the host
SetEnv(e) ==
  /\ e # env
  /\ env' = e
  /\ UNCHANGED <<fsFiles, currentRollNumber, currentLogFilePath,
                 studentIdHash, machineIdHash, telemetryEnabled, today, nLog,
                 lastLog, sessionId, lastGet>>
  /\ UNCHANGED sessVars
  /\ UNCHANGED fnVars
  /\ UNCHANGED toolVars
  /\ UNCHANGED editVars

InitLogger ==
  /\ InitSession
  /\ curIn = <<>>
  /\ curOut = <<>>
  /\ curAgain = <<>>
  /\ phase = "in"
  /\ logCalls = 0
  /\ fbOut = NoCall
  /\ toolsIn = <<>>
  /\ toolsOut = <<>>
  /\ nEdits = 0
  /\ \E enabled \in BOOLEAN, f0 \in PreExisting, f1 \in PreExisting :
       Constructor(enabled, f0, f1)

NextLogger ==
  \/ \E event \in LoggedEvents, bytes \in LineBytes, fs \in FsOutcomes :
       LogEvent(event, bytes, fs)
  \/ Midnight
  \/ \E e \in Envs : SetEnv(e)

SpecLogger == InitLogger /\ [][NextLogger]_vars

\* UserBehaviorLogger.getInstance(config), called when the instance exists
GetInstance(config) ==
  /\ lastGet # [called |-> TRUE, config |-> config, at |-> nLog]
  /\ LET instance ==
           [constructed |-> TRUE,
            config |-> [sessionId |-> sessionId,
                        telemetryEnabled |-> telemetryEnabled]]
         got == getInstance(instance, config)
     IN /\ sessionId' = got.config.sessionId
        /\ telemetryEnabled' = got.config.telemetryEnabled
  /\ lastGet' = [called |-> TRUE, config |-> config, at |-> nLog]
  /\ UNCHANGED <<fsFiles, currentRollNumber, currentLogFilePath,
                 studentIdHash, machineIdHash, env, today, nLog, lastLog>>
  /\ UNCHANGED sessVars
  /\ UNCHANGED fnVars
  /\ UNCHANGED toolVars
  /\ UNCHANGED editVars

NextSingleton ==
  \/ NextLogger
  \/ \E config \in Configs : GetInstance(config)

SpecSingleton == InitLogger /\ [][NextSingleton]_vars

\* ------------------------------------------ streams of text-led chunks
\* the n-th chunk's content: a text and a function call
ModelTextFc(c, n) == Content("model", <<TextPart(<<10 * c + n>>), FcPart>>)
\* a text followed by an empty text part
ModelTextEmpty(c, n) ==
  Content("model", <<TextPart(<<10 * c + n>>), TextPart(<<>>)>>)

MergeChunks(c, n) ==
  { Response(ModelText(c, n), n), Response(ModelTextFc(c, n), 0),
    Response(ModelTextEmpty(c, n), 0), Response(ModelThought, 0),
    Response(ModelFc, 0) }

\* sendMessageStream exchanges, one at a time, consumed to their end
NextMerge ==
  \E c \in Calls :
    \/ (\A d \in Calls : pc[d] \in Terminal) /\ Call(c, "stream")
    \/ Resume(c)
    \/ StartAttempt(c)
    \/ StreamOpen(c)
    \/ PromiseSettle(c)
    \/ \E chunk \in MergeChunks(c, nPulled[c] + 1) :
         nPulled[c] < MaxSeqChunks /\ StreamChunk(c, chunk)
    \/ StreamExhaust(c)
    \/ StreamRecord(c)

SpecMerge == Init /\ [][NextMerge]_vars

\* --------------------------------- the caller edits the history meanwhile
HistoryFrame ==
  /\ UNCHANGED <<sendPromise, pstate, loggedResponses, nextId, events, pc,
                 kind, waitOn, reqContents, reqId, attempts, resp, chunks,
                 outputContent, nPulled, recorded, usageSeen, duringStream>>
  /\ UNCHANGED cfgVars
  /\ UNCHANGED fnVars
  /\ UNCHANGED logVars
  /\ UNCHANGED toolVars
  /\ UNCHANGED errVars
  /\ UNCHANGED obsVars
  /\ nEdits < MaxEdits
  /\ nEdits' = nEdits + 1

\* addHistory(content)
addHistory(content) ==
  /\ history' = Append(history, content)
  /\ HistoryFrame

\* clearHistory()
clearHistory ==
  /\ history # <<>>
  /\ history' = <<>>
  /\ HistoryFrame

\* setHistory(h)
setHistory(h) ==
  /\ history # h
  /\ history' = h
  /\ HistoryFrame

\* sendMessage exchanges, one at a time, and the three history methods
NextAfc ==
  \/ \E c \in Calls :
       \/ (\A d \in Calls : pc[d] \in Terminal) /\ Call(c, "send")
       \/ Resume(c)
       \/ StartAttempt(c)
       \/ \E r \in SeqResponses(c), tail \in AfcTails :
            SendReturn(c, WithAfc(c, r, tail))
       \/ SendCommit(c, FALSE)
       \/ SendSettle(c)
  \/ \E content \in {UserA, ModelOk} : addHistory(content)
  \/ clearHistory
  \/ setHistory(<<UserA, ModelOk>>)

SpecAfc == Init /\ [][NextAfc]_vars

\* ------------------------------------------- _extractToolsCalled on its own
UserHi == Content("user", <<TextPart(<<"h", "i">>)>>)
\* 'READ @a': upper case, two patterns of one tool
UserRead ==
  Content("user", <<TextPart(<<"R", "E", "A", "D", " ", "@", "a">>)>>)
\* 'tools' holds 'ls'; a second part 'edit'
UserTools ==
  Content("user", <<TextPart(<<"t", "o", "o", "l", "s">>),
                    TextPart(<<"e", "d", "i", "t">>)>>)
ModelSays == Content("model", <<TextPart(<<"g", "r", "e", "p">>)>>)

ToolTurns == {UserHi, UserRead, UserTools, UserFr, ModelSays}

MaxContents == 2

InitTools ==
  /\ InitSession
  /\ curIn = <<>>
  /\ curOut = <<>>
  /\ curAgain = <<>>
  /\ phase = "in"
  /\ logCalls = 0
  /\ fbOut = NoCall
  /\ Constructor(TRUE, NoFile, NoFile)
  /\ toolsIn \in SeqsUpTo(ToolTurns, MaxContents)
                   \X SeqsUpTo(ToolTurns, MaxContents)
  /\ toolsOut = <<>>
  /\ nEdits = 0

\* _extractToolsCalled applied to each of the two arrays
ExtractTools ==
  /\ toolsOut = <<>>
  /\ toolsOut' = <<[tools |-> extractToolsCalled(toolsIn[1])],
                   [tools |-> extractToolsCalled(toolsIn[2])]>>
  /\ UNCHANGED toolsIn
  /\ UNCHANGED sessVars
  /\ UNCHANGED fnVars
  /\ UNCHANGED logVars
  /\ UNCHANGED editVars

NextTools == ExtractTools

SpecTools == InitTools /\ [][NextTools]_vars

\* ------------------------------------------- handleFlashFallback on its own
\* handleFlashFallback(authType, error) with the config's handler behaving
\* as given
ApplyFallback(authType, handler, error) ==
  /\ fbOut' = [authType |-> authType, handler |-> handler, error |-> error,
               before |-> model,
               consulted |-> HookConsulted(authType, handler),
               hookLeft |-> ModelAfterHook(authType, handler),
               after |-> ModelAfterFallback(authType, handler),
               ret |-> handleFlashFallback(authType, handler, error)]
  /\ model' = ModelAfterFallback(authType, handler)
  /\ UNCHANGED <<history, sendPromise, pstate, loggedResponses, nextId,
                 events, pc, kind, waitOn, reqContents, reqId, attempts,
                 resp, chunks, outputContent, nPulled, recorded, usageSeen,
                 duringStream>>
  /\ UNCHANGED <<curIn, curOut, curAgain, phase, logCalls>>
  /\ UNCHANGED logVars
  /\ UNCHANGED toolVars
  /\ UNCHANGED editVars
  /\ UNCHANGED errVars
  /\ UNCHANGED obsVars

NextFallback ==
  \E authType \in AuthTypes, handler \in Handlers,
     error \in Errors \cup {NoError} :
    ApplyFallback(authType, handler, error)

SpecFallback == Init /\ [][NextFallback]_vars

\* ---------------------------------------------------------------- claims
EventsOf(c, type) ==
  {i \in DOMAIN events : events[i].type = type /\ events[i].ex = c}

ResponsesWithId(rid) ==
  {i \in DOMAIN events :
     events[i].type = "api_response" /\ events[i].rid = rid}

HasUserTurnOf(c) ==
  \E i \in DOMAIN history : history[i] = createUserContent(c)

\* C1: while an earlier sendMessage call has not got its transport result
\* back (so has not committed), a later sendMessage call has not invoked the
\* transport; in particular two transport invocations never overlap.
C1_SecondTransportAfterFirstCommit ==
  \A c \in Calls, d \in Calls :
    (/\ c < d
     /\ kind[c] = "send" /\ kind[d] = "send"
     /\ pc[c] \in {"awaitPrev", "logged", "inTransport", "backoff"})
    => pc[d] \in {"idle", "awaitPrev", "logged", "rejected"}

\* C2: a call made while an earlier stream was not yet fully consumed builds
\* no request contents (and so invokes no transport) before that earlier
\* exchange has recorded its turns, or has ended without recording any.
C2_WaitsForStreamCommit ==
  \A d \in Calls : \A c \in duringStream[d] :
    \/ pc[d] \in {"awaitPrev", "rejected"}
    \/ c \in recorded
    \/ pc[c] \in {"streamFailed", "abandoned"}

\* C3: an exchange that completed without error and whose response, or one
\* of whose chunks, carried usage metadata has exactly one api_response
\* event, under the request id of its api_request event.
C3_OneResponsePerUsageExchange ==
  \A c \in Calls :
    (pc[c] = "done" /\ usageSeen[c])
    => /\ \E i \in EventsOf(c, "api_request") : events[i].rid = reqId[c]
       /\ Cardinality(ResponsesWithId(reqId[c])) = 1

\* C4: however often _logApiResponse is called with one request id (with
\* usage metadata), one api_response event is emitted for that id.
C4_DedupIdempotent ==
  \A rid \in 1..MaxLogIds : Cardinality(ResponsesWithId(rid)) <= 1

\* C5: at most one api_response event is ever emitted for each request id
\* minted by the session, across retries and both kinds of exchange.
C5_AtMostOneResponsePerId ==
  \A c \in Calls :
    reqId[c] # 0 => Cardinality(ResponsesWithId(reqId[c])) <= 1

C5_Witness ==
  \E c \in Calls, d \in Calls :
    /\ c # d
    /\ model = FlashModel
    /\ pc[c] = "respLogged" /\ attempts[c] > 1
    /\ Cardinality(EventsOf(c, "api_response")) = 1
    /\ kind[d] = "stream" /\ pc[d] = "done"
    /\ Cardinality(EventsOf(d, "api_response")) = 1

\* C6: every api_response event belongs to an exchange whose response, or
\* one of whose chunks, carried usage metadata: an exchange without any
\* usage metadata has no api_response event.
C6_NoUsageNoResponse ==
  \A i \in DOMAIN events :
    events[i].type = "api_response" => usageSeen[events[i].ex]

C6_Witness ==
  \E c \in Calls, d \in Calls :
    /\ kind[c] = "stream" /\ pc[c] = "done" /\ nPulled[c] > 0
    /\ ~usageSeen[c] /\ EventsOf(c, "api_response") = {}
    /\ kind[d] = "send" /\ pc[d] = "done"
    /\ ~usageSeen[d] /\ EventsOf(d, "api_response") = {}

\* C7: a sendMessage call that failed (a non-retryable error, or the retry
\* policy gave up) has emitted exactly one api_error event and has added
\* nothing to history: its user turn is not there.
C7_SendFailure ==
  \A c \in Calls :
    (kind[c] = "send" /\ pc[c] = "failed")
    => /\ Cardinality(EventsOf(c, "api_error")) = 1
       /\ c \notin recorded
       /\ ~HasUserTurnOf(c)

C7_Witness ==
  \E c \in Calls, d \in Calls :
    /\ kind[c] = "send" /\ pc[c] = "failed"
    /\ Cardinality(EventsOf(c, "api_error")) = 1
    /\ d \in recorded /\ HasUserTurnOf(d)

\* C8: a stream that raised before it was exhausted has emitted exactly one
\* api_error event and no api_response event, and neither its user turn nor
\* any output it delivered is in history.
C8_StreamFailure ==
  \A c \in Calls :
    pc[c] = "streamFailed"
    => /\ Cardinality(EventsOf(c, "api_error")) = 1
       /\ EventsOf(c, "api_response") = {}
       /\ c \notin recorded
       /\ ~HasUserTurnOf(c)

C8_Witness ==
  \E c \in Calls :
    /\ pc[c] = "streamFailed"
    /\ nPulled[c] > 0 /\ usageSeen[c]
    /\ Cardinality(EventsOf(c, "api_error")) = 1

\* C9: no call is rejected because of an earlier exchange's failure: every
\* call gets past its first await to emit its request event.
C9_NextCallNotRejected ==
  \A c \in Calls : pc[c] # "rejected"

\* C10: curation keeps exactly the user turns that are not immediately
\* followed by a run of model turns containing an invalid turn, and the
\* model turns whose maximal run is all valid, in their order.
RECURSIVE RunStart(_, _)
RunStart(h, i) ==
  IF i > 1 /\ h[i - 1].role = "model" THEN RunStart(h, i - 1) ELSE i

RunAllValid(h, i) ==
  \A n \in RunStart(h, i)..(RunEnd(h, i) - 1) : isValidContent(h[n])

KeptByCuration(h, i) ==
  IF h[i].role = "user"
  THEN ~(i < Len(h) /\ h[i + 1].role = "model" /\ ~RunAllValid(h, i + 1))
  ELSE RunAllValid(h, i)

KeptTurns(h) ==
  LET idx == SelectSeq([i \in 1..Len(h) |-> i],
                       LAMBDA i : KeptByCuration(h, i))
  IN [n \in 1..Len(idx) |-> h[idx[n]]]

C10_CurationDropsRunAndItsUserTurn ==
  phase = "out" => curOut = KeptTurns(curIn)

C10_Witness ==
  /\ phase = "out"
  /\ curIn = <<UserA, ModelEmpty, UserB>>
  /\ curOut = <<UserB>>

\* C11: the curated history holds no content-invalid model turn (no parts, an
\* empty part object, or a non-thought part with empty text) and is an
\* order-preserving subsequence of the comprehensive history.
ContentInvalid(content) ==
  \/ Len(content.parts) = 0
  \/ \E i \in 1..Len(content.parts) :
       \/ content.parts[i] = EmptyObjPart
       \/ (~content.parts[i].th /\ content.parts[i].k = "text"
             /\ content.parts[i].t = <<>>)

RECURSIVE IsSubseq(_, _)
IsSubseq(a, b) ==
  IF Len(a) = 0 THEN TRUE
  ELSE IF Len(b) = 0 THEN FALSE
  ELSE IF Head(a) = Head(b) THEN IsSubseq(Tail(a), Tail(b))
  ELSE IsSubseq(a, Tail(b))

C11_CuratedValidSubsequence ==
  phase # "in"
  => /\ \A i \in 1..Len(curOut) :
          curOut[i].role = "model" => ~ContentInvalid(curOut[i])
     /\ IsSubseq(curOut, curIn)

C11_Witness ==
  /\ phase = "out"
  /\ curIn = <<UserA, ModelOk, UserB, ModelEmptyObj>>
  /\ curOut = <<UserA, ModelOk>>

\* C12: curating the curated history of h yields the curated history of h.
C12_CurationIdempotent ==
  phase = "again" => curAgain = curOut

C12_Witness ==
  /\ phase = "again"
  /\ curIn = <<UserA, UserB, ModelEmptyText, ModelOk>>
  /\ curOut = <<UserA>>
  /\ curAgain = <<UserA>>

\* C13: once an exchange has completed with an empty or otherwise unusable
\* model output (no content, a content-invalid content, or thoughts only; no
\* automatic-function-calling history), the request contents of every later
\* exchange do not contain that exchange's user turn.
Usable(content) ==
  /\ content # NoContent
  /\ ~ContentInvalid(content)
  /\ ~content.parts[1].th

UnusableOutput(c) ==
  /\ c \in recorded
  /\ \A i \in 1..Len(delivered[c]) :
       ~Usable(delivered[c][i].content) /\ delivered[c][i].afc = <<>>

C13_NoOrphanUserTurnResent ==
  \A c \in Calls, d \in Calls :
    (/\ c < d
     /\ UnusableOutput(c)
     /\ pc[d] \notin {"idle", "awaitPrev", "rejected"})
    => \A i \in 1..Len(reqContents[d]) :
         reqContents[d][i] # createUserContent(c)

\* C14 (as claimed): no model turn appended to history by sendMessage or
\* sendMessageStream is empty (has no parts) or is a pure thought.
PureThought(content) ==
  /\ Len(content.parts) > 0
  /\ \A i \in 1..Len(content.parts) : content.parts[i].th

C14_NoEmptyOrThoughtTurnAppended ==
  \A c \in Calls : \A i \in 1..Len(appended[c]) :
    appended[c][i].role = "model"
    => Len(appended[c][i].parts) > 0 /\ ~PureThought(appended[c][i])

\* C14 (amended): no model turn appended to history by sendMessage or
\* sendMessageStream is a pure thought; a model turn without parts is
\* appended only for an exchange that delivered no usable model output.
C14_NoThoughtTurnAppended ==
  \A c \in Calls : \A i \in 1..Len(appended[c]) :
    appended[c][i].role = "model"
    => /\ ~PureThought(appended[c][i])
       /\ Len(appended[c][i].parts) = 0
          => \A n \in 1..Len(delivered[c]) : ~Usable(delivered[c][n].content)

C14_Witness ==
  \E c \in Calls, d \in Calls :
    /\ kind[c] = "send" /\ pc[c] = "done"
    /\ delivered[c] = <<Response(ModelThought, 1)>>
    /\ appended[c] = <<createUserContent(c)>>
    /\ kind[d] = "stream" /\ pc[d] = "done"
    /\ Len(delivered[d]) = 2
    /\ delivered[d][1].content = ModelThought
    /\ delivered[d][2].content = ModelEmptyText
    /\ appended[d] = <<createUserContent(d), ModelEmpty>>

\* C15: on a session that started with an empty history, whenever every
\* exchange made so far has completed, the comprehensive history alternates
\* strictly between user and model turns.
C15_HistoryAlternates ==
  (\A c \in Calls : pc[c] \in {"idle", "done"})
  => \A i \in 1..(Len(history) - 1) : history[i].role # history[i + 1].role

\* C16 (as claimed): when the response of a sendMessage reports an
\* automatic-function-calling history, the turns appended for the exchange
\* are exactly the curated part of it beyond the curated history already
\* sent: neither the user turn nor the response's model turn is appended too.
AfcReported(c) ==
  /\ kind[c] = "send"
  /\ c \in recorded
  /\ delivered[c][1].afc # <<>>

AfcSubHistory(c) ==
  LET full == delivered[c][1].afc
  IN SubSeq(full, Len(reqContents[c]), Len(full))

OwnModelTurns(r) ==
  IF r.content = NoContent THEN <<ModelEmpty>>
  ELSE IF r.content.parts # <<>> /\ r.content.parts[1].th THEN <<>>
  ELSE <<r.content>>

IsThoughtChunk(chunk) ==
  /\ chunk.content # NoContent
  /\ chunk.content.parts # <<>>
  /\ chunk.content.parts[1].th

RECURSIVE LastUsage(_)
LastUsage(cs) ==
  IF cs = <<>> THEN 0
  ELSE IF cs[Len(cs)].usage # 0 THEN cs[Len(cs)].usage
  ELSE LastUsage(SubSeq(cs, 1, Len(cs) - 1))

C18_UsageOfLastChunkWithUsage ==
  \A c \in Calls :
    (kind[c] = "stream" /\ pc[c] \in {"streamEnd", "done"})
    => \A i \in EventsOf(c, "api_response") :
         events[i].usage = LastUsage(delivered[c])

\* C19: within one exchange, the api_request event is emitted before the
\* transport is first invoked; the api_response event is emitted after the
\* transport has succeeded (for a stream: no chunk is yielded after it) and
\* before the exchange's turns are appended to history (no event of the
\* exchange is emitted once they are).
ResponseEvents(evs, c) ==
  {i \in DOMAIN evs : evs[i].type = "api_response" /\ evs[i].ex = c}

C19_Order(c) ==
  /\ (pc[c] # "inTransport" /\ pc'[c] = "inTransport")
     => EventsOf(c, "api_request") # {}
  /\ ResponseEvents(events', c) # ResponseEvents(events, c)
     => /\ EventsOf(c, "api_request") # {}
        /\ pc[c] = IF kind[c] = "send" THEN "inTransport" ELSE "streamOpen"
        /\ c \notin recorded'
  /\ ResponseEvents(events, c) # {} => yielded'[c] = yielded[c]
  /\ c \in recorded
     => {i \in DOMAIN events' : events'[i].ex = c}
          = {i \in DOMAIN events : events[i].ex = c}

C19_ExchangeOrder == [][\A c \in Calls : C19_Order(c)]_vars

C19_Witness ==
  \E c \in Calls, d \in Calls :
    /\ kind[c] = "stream" /\ pc[c] = "done" /\ c \in recorded
    /\ Len(yielded[c]) > 0
    /\ Cardinality(EventsOf(c, "api_request")) = 1
    /\ Cardinality(EventsOf(c, "api_response")) = 1
    /\ kind[d] = "send" /\ pc[d] = "done" /\ d \in recorded
    /\ Cardinality(EventsOf(d, "api_request")) = 1
    /\ Cardinality(EventsOf(d, "api_response")) = 1

\* C20: the responseType of a streamed exchange's api_response event is the
\* classification of what the stream delivered: text_response when the
\* chunks carry only text parts, tool_call when they carry function calls
\* and no text, mixed when they carry both.
ChunksCarry(cs, k) ==
  \E n \in 1..Len(cs) :
    /\ cs[n].content # NoContent
    /\ \E j \in 1..Len(cs[n].content.parts) :
         /\ cs[n].content.parts[j].k = k
         /\ k = "text" => cs[n].content.parts[j].t # <<>>

C20_StreamResponseType ==
  \A c \in Calls :
    kind[c] = "stream"
    => \A i \in EventsOf(c, "api_response") :
         LET hasFc == ChunksCarry(delivered[c], "fc")
             hasText == ChunksCarry(delivered[c], "text")
         IN /\ (hasText /\ ~hasFc) => events[i].rt = "text_response"
            /\ (hasFc /\ ~hasText) => events[i].rt = "tool_call"
            /\ (hasFc /\ hasText) => events[i].rt = "mixed"

\* C21 (as claimed): every api_error event carries the request id minted for
\* its exchange and logged in that exchange's api_request event.
C21_ErrorCarriesRequestId ==
  \A i \in DOMAIN events :
    events[i].type = "api_error"
    => events[i].rid # 0 /\ events[i].rid = reqId[events[i].ex]

\* C21 (amended): an api_error event carries no request id; the id minted for
\* an exchange and logged in its api_request event is carried by the
\* exchange's api_response event only, which links the two.
C21_OnlyResponseCarriesRequestId ==
  \A i \in DOMAIN events :
    /\ events[i].type = "api_error" => events[i].rid = 0
    /\ events[i].type = "api_response"
       => /\ events[i].rid # 0
          /\ events[i].rid = reqId[events[i].ex]
          /\ \E j \in 1..(i - 1) :
               /\ events[j].type = "api_request"
               /\ events[j].ex = events[i].ex
               /\ events[j].rid = events[i].rid

C21_Witness ==
  \E c \in Calls, d \in Calls :
    /\ pc[c] = "failed"
    /\ \E i \in EventsOf(c, "api_request") : events[i].rid = reqId[c]
    /\ \E i \in EventsOf(c, "api_error") : events[i].rid = 0
    /\ pc[d] = "done"
    /\ \E i \in EventsOf(d, "api_response") : events[i].rid = reqId[d]

\* C22: the retry loop waits to try again only after a rate-limit error (HTTP
\* 429) or a server-side 5xx failure; after any other error no further
\* transport attempt is made for the exchange.
C22_RetryOnly429Or5xx ==
  \A c \in Calls :
    pc[c] = "backoff"
    => lastError[c].status = 429 \/ lastError[c].status \in 500..599

\* C23: once the fallback handler has accepted, the session's model is the
\* fallback model and every transport invocation started afterwards, by any
\* exchange, uses the fallback model.
C23_Step(c) ==
  (accepted /\ pc[c] # "inTransport" /\ pc'[c] = "inTransport")
  => attemptModel'[c] = FlashModel

C23_FallbackModelSticks ==
  [][(accepted' => model' = FlashModel) /\ \A c \in Calls : C23_Step(c)]_vars

C23_Witness ==
  \E c \in Calls, d \in Calls :
    /\ c # d
    /\ accepted
    /\ pstate[c] # "none" /\ attemptModel[c] = FlashModel
    /\ pc[d] = "inTransport" /\ attemptModel[d] = FlashModel
    /\ \E i \in EventsOf(d, "api_request") :
         \A j \in EventsOf(c, "api_request") : j < i

\* the handler was consulted and accepted
HookAccepted(o) ==
  o.authType = "google" /\ o.before # FlashModel /\ o.handler = "accept"

\* C24 (as stated): handleFlashFallback leaves the model changed only when
\* the auth mode is Google login, the model is not the fallback model and
\* the handler is consulted and accepts; in every other case the model is
\* unchanged and "null" is returned; on the fallback model the handler is
\* not consulted.
C24_ModelUnchangedUnlessAccepted ==
  fbOut # NoCall =>
    /\ (fbOut.after # fbOut.before => HookAccepted(fbOut))
    /\ (~HookAccepted(fbOut)
          => fbOut.after = fbOut.before /\ fbOut.ret = "null")
    /\ (fbOut.before = FlashModel => ~fbOut.consulted)

\* C24 (amended): handleFlashFallback itself sets the model, and returns the
\* fallback model's name, exactly when the handler is consulted and
\* accepts; in every other case it returns "null" and leaves the model as
\* it found it or, when the handler ran, as the handler left it; on the
\* fallback model the handler is not consulted.
C24_SetsModelOnlyWhenAccepted ==
  fbOut # NoCall =>
    /\ (HookAccepted(fbOut)
          => fbOut.after = FlashModel /\ fbOut.ret = FlashModel)
    /\ (~HookAccepted(fbOut)
          => fbOut.after = fbOut.hookLeft /\ fbOut.ret = "null")
    /\ (~fbOut.consulted => fbOut.hookLeft = fbOut.before)
    /\ (fbOut.before = FlashModel => ~fbOut.consulted)
    /\ (fbOut.consulted => fbOut.authType = "google")

C24_Witness ==
  /\ fbOut # NoCall
  /\ fbOut.authType = "google" /\ fbOut.handler = "declineSwitched"
  /\ fbOut.before = "pro" /\ fbOut.after = FlashModel
  /\ fbOut.ret = "null"

\* the latest logEvent call found telemetry enabled
Logged == lastLog.called /\ lastLog.enabled

\* C25 (as stated): a line is written to the file of the next roll number
\* when the active file exists and its size plus the line's length is at
\* least the cap, and to the active file, the roll number unchanged,
\* otherwise.
C25_RollsAtOrAboveCap ==
  (Logged /\ lastLog.fs = "ok") =>
    IF lastLog.existedBefore
       /\ lastLog.sizeBefore + lastLog.bytes >= maxFileSize
    THEN /\ currentRollNumber = lastLog.rollBefore + 1
         /\ lastLog.wrote.roll = currentRollNumber
    ELSE /\ currentRollNumber = lastLog.rollBefore
         /\ lastLog.wrote = lastLog.pathBefore

\* C25 (amended): with telemetry enabled, the roll number is incremented
\* when the active file exists and its size plus the line's length is
\* greater than the cap, and unchanged otherwise; unless the append fails,
\* the line is written to the file of the new roll number in the first case
\* and to the active file in the second.
C25_RollsAboveCap ==
  Logged =>
    IF lastLog.existedBefore
       /\ lastLog.sizeBefore + lastLog.bytes > maxFileSize
    THEN /\ currentRollNumber = lastLog.rollBefore + 1
         /\ currentLogFilePath.roll = currentRollNumber
         /\ lastLog.fs = "ok" => lastLog.wrote = currentLogFilePath
    ELSE /\ currentRollNumber = lastLog.rollBefore
         /\ currentLogFilePath = lastLog.pathBefore
         /\ lastLog.fs = "ok" => lastLog.wrote = lastLog.pathBefore

C25_Witness ==
  /\ Logged /\ lastLog.fs = "ok"
  /\ lastLog.existedBefore
  /\ lastLog.sizeBefore + lastLog.bytes > maxFileSize
  /\ lastLog.sizeBefore <= maxFileSize
  /\ lastLog.bytes <= maxFileSize
  /\ currentRollNumber = lastLog.rollBefore + 1
  /\ lastLog.wrote.roll = currentRollNumber
  /\ fsFiles[lastLog.wrote].lines # <<>>

\* C26: no file the logger has written to is larger than the cap.
C26_NoFileAboveCap ==
  \A p \in Paths :
    fsFiles[p].lines # <<>> => statSize(p) <= maxFileSize

IsPrefix(a, b) == Len(a) <= Len(b) /\ SubSeq(b, 1, Len(a)) = a

\* C27: the roll number never decreases, a logEvent call writes to no file
\* of a roll number lower than the roll number before the call, and every
\* file keeps its earlier bytes and lines, new lines coming after them.
C27_Step ==
  /\ currentRollNumber' >= currentRollNumber
  /\ (nLog' # nLog /\ lastLog'.wrote # NoPath)
       => lastLog'.wrote.roll >= currentRollNumber
  /\ \A p \in Paths :
       /\ fsFiles[p].exists => fsFiles'[p].exists
       /\ fsFiles'[p].base = fsFiles[p].base
       /\ IsPrefix(fsFiles[p].lines, fsFiles'[p].lines)

C27_RollMonotoneAppendOnly == [][C27_Step]_vars

C27_Witness ==
  /\ currentRollNumber >= 1
  /\ \E p \in Paths, q \in Paths :
       /\ p.roll < q.roll
       /\ q = lastLog.wrote
       /\ Len(fsFiles[p].lines) >= 1
       /\ fsFiles[p].base > 0
       /\ Len(fsFiles[q].lines) >= 1

RECURSIVE LinesIn(_)
LinesIn(ps) ==
  IF ps = {} THEN 0
  ELSE LET p == CHOOSE x \in ps : TRUE
       IN Len(fsFiles[p].lines) + LinesIn(ps \ {p})

\* C28: a logEvent call whose append throws still resolves, and a call
\* made with telemetry enabled whose append does not throw writes its line,
\* whatever happened to earlier calls.
C28_AppendFailureSwallowed ==
  lastLog.called =>
    /\ lastLog.outcome = "resolved"
    /\ (lastLog.enabled /\ lastLog.fs = "ok") =>
         /\ lastLog.wrote = currentLogFilePath
         /\ fsFiles[lastLog.wrote].lines # <<>>

C28_Witness ==
  /\ Logged /\ lastLog.fs = "ok"
  /\ lastLog.wrote # NoPath
  /\ nLog >= 2
  /\ LinesIn(Paths) < nLog

\* C29: with telemetry disabled no step creates a file or appends to one,
\* and the roll number and the active path stay as they are.
C29_DisabledWritesNothing ==
  [][~telemetryEnabled
       => UNCHANGED <<fsFiles, currentRollNumber, currentLogFilePath>>]_vars

C29_Witness ==
  /\ lastLog.called /\ ~lastLog.enabled
  /\ nLog = MaxEvents
  /\ lastLog.existedBefore
  /\ lastLog.sizeBefore + lastLog.bytes > maxFileSize
  /\ currentRollNumber = 0

\* C30: the two hashes are those of the environment at construction, and
\* every line written carries them and the config's session id.
C30_EventsCarryConstructionIdentity ==
  /\ studentIdHash = generateStudentIdHash(Env0)
  /\ machineIdHash = generateMachineIdHash(Env0)
  /\ \A p \in Paths : \A i \in 1..Len(fsFiles[p].lines) :
       LET e == fsFiles[p].lines[i].entry
       IN /\ e.sessionId = SessionId
          /\ e.studentIdHash = generateStudentIdHash(Env0)
          /\ e.machineIdHash = generateMachineIdHash(Env0)

C30_Witness ==
  /\ Logged /\ lastLog.wrote # NoPath
  /\ lastLog.envAt = Env1
  /\ LET ls == fsFiles[lastLog.wrote].lines
     IN /\ ls[Len(ls)].entry.eventType = "api_request"
        /\ ls[Len(ls)].entry.studentIdHash = generateStudentIdHash(Env0)
        /\ generateStudentIdHash(Env0) # generateStudentIdHash(Env1)
        /\ generateMachineIdHash(Env0) # generateMachineIdHash(Env1)

\* the most recent user turn of a contents array
LatestUserTurn(contents) ==
  LET users == {i \in 1..Len(contents) : contents[i].role = "user"}
  IN IF users = {} THEN NoContent
     ELSE contents[CHOOSE i \in users : \A j \in users : j <= i]

\* C31: two contents arrays with the same most recent user turn get the same
\* predicted tools, whatever the other turns are.
C31_ToolsDependOnLatestUserTurn ==
  (toolsOut # <<>>
   /\ LatestUserTurn(toolsIn[1]) = LatestUserTurn(toolsIn[2]))
    => toolsOut[1] = toolsOut[2]

C31_Witness ==
  /\ toolsOut # <<>>
  /\ toolsIn[1] = <<UserTools, UserRead>>
  /\ toolsIn[2] = <<ModelSays, UserRead>>
  /\ toolsOut[1].tools = <<"read_file">>
  /\ toolsOut[2].tools = <<"read_file">>

\* the model's output for exchange c was recorded and held thoughts only
ThoughtOnlyOutput(c) ==
  /\ c \in recorded
  /\ Len(delivered[c]) > 0
  /\ \A i \in 1..Len(delivered[c]) :
       IsThoughtChunk(delivered[c][i]) /\ delivered[c][i].afc = <<>>

\* C32: an exchange whose model output is thoughts only appends no model
\* turn to history, be it a sendMessage or a sendMessageStream exchange.
C32_NoModelTurnForThoughtOnly ==
  \A c \in Calls :
    ThoughtOnlyOutput(c)
    => \A i \in 1..Len(appended[c]) : appended[c][i].role # "model"

\* C33: the turns appended for an exchange whose response reports an AFC
\* history are that history without the curated prefix sent in the request
\* (curated, and followed by the response's own model turn), also when the
\* history was edited while the exchange was under way.
C33_AfcPrefixOfRequestRemoved ==
  \A c \in Calls :
    (AfcReported(c) /\ pc[c] = "done")
    => appended[c] = extractCuratedHistory(
                       SubSeq(delivered[c][1].afc, Len(reqContents[c]),
                              Len(delivered[c][1].afc)))
                       \o OwnModelTurns(delivered[c][1])

\* a non-thought chunk that begins with a non-empty text part
TextLed(chunk) ==
  /\ chunk.content # NoContent
  /\ chunk.content.parts # <<>>
  /\ chunk.content.parts[1].k = "text"
  /\ ~chunk.content.parts[1].th
  /\ chunk.content.parts[1].t # <<>>

RECURSIVE ConcatTexts(_)
ConcatTexts(cs) ==
  IF cs = <<>> THEN <<>>
  ELSE Head(cs).content.parts[1].t \o ConcatTexts(Tail(cs))

RECURSIVE OtherParts(_)
OtherParts(cs) ==
  IF cs = <<>> THEN <<>>
  ELSE Tail(Head(cs).content.parts) \o OtherParts(Tail(cs))

\* stream c delivered two or more chunks, all text-led, and was recorded
TextLedStream(c) ==
  /\ kind[c] = "stream" /\ pc[c] = "done"
  /\ Len(delivered[c]) >= 2
  /\ \A i \in 1..Len(delivered[c]) : TextLed(delivered[c][i])

\* C34 (as stated): a completed stream of several text-led chunks appends
\* the user turn and one model turn whose first part is the concatenation of
\* the chunks' texts in arrival order.
C34_TextChunksMerged ==
  \A c \in Calls :
    TextLedStream(c)
    => /\ Len(appended[c]) = 2
       /\ appended[c][1] = createUserContent(c)
       /\ appended[c][2].role = "model"
       /\ appended[c][2].parts[1] = TextPart(ConcatTexts(delivered[c]))

\* C34 (amended): the same for chunks that are also content-valid (no
\* empty part, no empty text part); the parts after the first of each chunk
\* follow the merged text in arrival order.
C34_ValidTextChunksMerged ==
  \A c \in Calls :
    (TextLedStream(c)
     /\ \A i \in 1..Len(delivered[c]) :
          ~ContentInvalid(delivered[c][i].content))
    => appended[c] =
         << createUserContent(c),
            Content("model", <<TextPart(ConcatTexts(delivered[c]))>>
                               \o OtherParts(delivered[c])) >>

C34_Witness ==
  \E c \in Calls :
    /\ TextLedStream(c)
    /\ delivered[c][1].content = ModelTextFc(c, 1)
    /\ delivered[c][2].content = ModelText(c, 2)
    /\ appended[c] =
         << createUserContent(c),
            Content("model", <<TextPart(<<10 * c + 1, 10 * c + 2>>), FcPart>>) >>

\* C35: every transport invocation of an exchange carries the request id of
\* the exchange's api_request event and the request contents built when the
\* exchange went ahead: the curated history of that moment and the new user
\* turn; the contents do not change afterwards.
C35_Step(c) ==
  /\ (pc[c] = "awaitPrev" /\ pc'[c] = "logged")
       => reqContents'[c] =
            Append(extractCuratedHistory(history), createUserContent(c))
  /\ pc[c] \notin {"idle", "awaitPrev"} => reqContents'[c] = reqContents[c]
  /\ (pc[c] # "inTransport" /\ pc'[c] = "inTransport")
       => /\ attemptReq'[c].contents = reqContents[c]
          /\ \E i \in EventsOf(c, "api_request") :
               events[i].rid = attemptReq'[c].requestId
          /\ attempts[c] > 0 => attemptReq'[c] = attemptReq[c]

C35_AttemptsCarrySameRequest == [][\A c \in Calls : C35_Step(c)]_vars

C35_Witness ==
  \E c \in Calls :
    /\ pc[c] = "inTransport"
    /\ attempts[c] >= 2
    /\ attemptReq[c] = apiCallRequest(c)
    /\ Append(extractCuratedHistory(history), createUserContent(c))
         # reqContents[c]

\* C36: with telemetry enabled and appendFileSync succeeding, a logEvent call
\* adds its one line at the end of exactly one file and leaves every other
\* file as it was, so that the lines of a file are in the order of the calls.
C36_Step ==
  (nLog' # nLog /\ lastLog'.enabled /\ lastLog'.fs = "ok")
    => \E p \in Paths :
         /\ fsFiles'[p].exists
         /\ fsFiles'[p].base = fsFiles[p].base
         /\ fsFiles'[p].lines = Append(fsFiles[p].lines, lastLog'.line)
         /\ \A q \in Paths \ {p} : fsFiles'[q] = fsFiles[q]

C36_OneLinePerCallInOrder == [][C36_Step]_vars

C36_Witness ==
  /\ lastLog.called
  /\ lastLog.enabled
  /\ lastLog.fs = "ok"
  /\ \E p \in Paths :
       /\ Len(fsFiles[p].lines) = 2
       /\ fsFiles[p].lines[1] # fsFiles[p].lines[2]
       /\ fsFiles[p].lines[2] = lastLog.line

\* C37: an exchange of sendMessage or sendMessageStream only appends to the
\* comprehensive history: the turns recorded before its commit are all still
\* there afterwards, unmodified and in the same order, and the model text of
\* the new exchange is in turns after them.
C37_HistoryOnlyGrows == [][IsPrefix(history, history')]_vars

C37_Witness ==
  \E i \in 1..Len(history) :
    /\ i + 2 <= Len(history)
    /\ isTextContent(history[i])
    /\ history[i + 1].role = "user"
    /\ isTextContent(history[i + 2])

\* C38: an exchange of sendMessageStream whose caller stops consuming the
\* sequence before it is exhausted appends nothing to history and has neither
\* an api_response nor an api_error event.
C38_AbandonedStreamLeavesNoTrace ==
  \A c \in Calls :
    pc[c] = "abandoned"
      => /\ appended[c] = <<>>
         /\ c \notin recorded
         /\ EventsOf(c, "api_response") = {}
         /\ EventsOf(c, "api_error") = {}

C38_Witness ==
  \E c \in Calls :
    /\ pc[c] = "abandoned"
    /\ Len(yielded[c]) >= 1
    /\ EventsOf(c, "api_request") # {}
    /\ \E d \in Calls \ {c} : d \in recorded /\ EventsOf(d, "api_response") # {}

\* C39: no exchange has both an api_response and an api_error event; the
\* terminal events of one exchange, of the two types together, are at most
\* one.
C39_AtMostOneTerminalEvent ==
  \A c \in Calls :
    Cardinality(EventsOf(c, "api_response") \cup EventsOf(c, "api_error")) <= 1

C39_Witness ==
  \E c \in Calls, d \in Calls :
    /\ kind[c] = "stream" /\ pc[c] = "streamFailed"
    /\ Len(yielded[c]) >= 1 /\ usageSeen[c]
    /\ Cardinality(EventsOf(c, "api_error")) = 1
    /\ kind[d] = "send" /\ pstate[d] = "rejected"
    /\ Cardinality(EventsOf(d, "api_response")) = 1

\* C40: a getInstance call made when the logger exists leaves the logger as
\* it is: the config bound at construction, the roll number, the active path
\* and the hashes; and a logEvent call made after a getInstance call with
\* another config writes if and only if the first config has telemetry
\* enabled (and appendFileSync succeeds), to a file named after the first
\* config's session id, a line carrying that session id.
C40_Step ==
  /\ sessionId' = sessionId
  /\ telemetryEnabled' = telemetryEnabled
  /\ lastGet' # lastGet
       => UNCHANGED <<fsFiles, currentRollNumber, currentLogFilePath,
                      studentIdHash, machineIdHash>>
  /\ nLog' # nLog
       => /\ (lastLog'.wrote # NoPath)
               <=> (telemetryEnabled /\ lastLog'.fs = "ok")
          /\ lastLog'.wrote # NoPath
               => /\ lastLog'.wrote.session = Substring(SessionId, 0, 8)
                  /\ lastLog'.line.entry.sessionId = SessionId
                  /\ lastLog'.wrote.roll = currentRollNumber'

C40_SingletonKeepsFirstConfig ==
  /\ sessionId = SessionId
  /\ [][C40_Step]_vars

C40_Witness ==
  /\ lastGet.called
  /\ lastGet.config.sessionId = OtherSessionId
  /\ ~lastGet.config.telemetryEnabled
  /\ lastGet.at >= 1
  /\ lastGet.at < nLog
  /\ lastLog.called
  /\ lastLog.wrote # NoPath
  /\ lastLog.wrote.roll >= 1

=============================================================================
